---- MODULE Spec2Model ----
(***************************************************************************)
(* Grammar-ops naming analyzers: the function-side classifier and          *)
(* evaluator (lib/analyzers/context_analyzer.py) and the assignment-side   *)
(* classifier and evaluator (lib/analyzers/constant_detector.py).          *)
(*                                                                         *)
(* Python strings are tuples of one-character strings, so that prefix,     *)
(* suffix, substring and case tests are computed as the code computes      *)
(* them.  An optional value is <<>> (None) or <<v>>.                       *)
(***************************************************************************)
EXTENDS Integers, Sequences, FiniteSets, TLC

\* cli_style:   the answer of the framework detector's get_cli_style
\* stats:       ContextAwareFunctionAnalyzer.stats
\* const_stats: SmartConstantAnalyzer.stats
\* input:       the argument of the last call
\* ctxs:        the context objects built by the last call, in order
\* result:      what the last call returned or raised
\* analyzer_issues: the `issues` attribute of the two analyzers
\* project:     the files under project_root and the backup directory
\* migrator:    fixed_files, skipped_files and migration_log of CodeMigrator
\* workers:     the threads that share an analyzer, each with the counter
\*              updates it still has to make
VARIABLES cli_style, stats, const_stats, input, ctxs, result,
          analyzer_issues, project, migrator, workers

vars == <<cli_style, stats, const_stats, input, ctxs, result,
          analyzer_issues, project, migrator, workers>>

(***************************************************************************)
(* Bounds of the model.                                                    *)
(***************************************************************************)
\* Python's recursion limit, scaled down: the depth at which a chain of
\* nested calls of _analyze_node ends in RecursionError.
RecursionLimit == 3
\* analyze_file is not called again once a counter has reached MaxCount.
MaxCount == 3

(***************************************************************************)
(* Constants of the program.                                               *)
(***************************************************************************)
\* The length to which _create_issue cuts current_value.
ValueLimit == 50

(***************************************************************************)
(* str methods used by the analyzers.                                      *)
(***************************************************************************)
None == <<>>
Some(v) == <<v>>

LowerChars == <<"a","b","c","d","e","f","g","h","i","j","k","l","m","n","o","p","q","r","s","t","u","v","w","x","y","z">>
UpperChars == <<"A","B","C","D","E","F","G","H","I","J","K","L","M","N","O","P","Q","R","S","T","U","V","W","X","Y","Z">>

IsUpperChar(c) == \E i \in DOMAIN UpperChars : UpperChars[i] = c
IsLowerChar(c) == \E i \in DOMAIN LowerChars : LowerChars[i] = c

lower_char(c) ==
    IF IsUpperChar(c)
    THEN LowerChars[CHOOSE i \in DOMAIN UpperChars : UpperChars[i] = c]
    ELSE c

\* str.lower()
lower(s) == [i \in 1..Len(s) |-> lower_char(s[i])]

\* str.startswith(prefix)
startswith(s, prefix) ==
    /\ Len(prefix) <= Len(s)
    /\ SubSeq(s, 1, Len(prefix)) = prefix

\* str.endswith(suffix)
endswith(s, suffix) ==
    /\ Len(suffix) <= Len(s)
    /\ SubSeq(s, Len(s) - Len(suffix) + 1, Len(s)) = suffix

\* sub in s
contains(s, sub) ==
    \E i \in 1..(Len(s) - Len(sub) + 1) : SubSeq(s, i, i + Len(sub) - 1) = sub

(***************************************************************************)
(* FunctionContext                                                         *)
(***************************************************************************)
\* ast.unparse(decorator): the decorator_list of the node holds the
\* expression after the "@" of the source line, and unparse renders that
\* expression; the "@" is not part of it.
unparse_decorator(line) == Tail(line)

\* FunctionContext.__init__ and _analyze: node is the FunctionDef of the
\* source, [kind, name, decorator_lines, returns, first_const, lineno, body].
\* first_const is None unless the first statement of the body is a constant
\* expression, and then holds its value: [type |-> "str", text |-> chars],
\* [type |-> "ellipsis"] or [type |-> "int", val |-> n].  The docstring
\* attribute takes that value whatever its type.
FunctionContext(node) ==
    [ name         |-> node.name,
      decorators   |-> [i \in 1..Len(node.decorator_lines) |->
                           unparse_decorator(node.decorator_lines[i])],
      returns_type |-> node.returns,
      docstring    |-> node.first_const,
      lineno       |-> node.lineno,
      is_method    |-> FALSE,
      parent_class |-> None ]

any_decorator(ctx, marker) ==
    \E i \in DOMAIN ctx.decorators : contains(ctx.decorators[i], marker)

\* A variant of context_type that tries the fixture rule before the test_
\* prefix rule.
context_type_fixture_first(ctx) ==
    IF any_decorator(ctx, <<"@","p","y","t","e","s","t",".","f","i","x","t","u","r","e">>) THEN "pytest_fixture"
    ELSE IF startswith(ctx.name, <<"t","e","s","t","_">>) THEN "test_function"
    ELSE IF \/ any_decorator(ctx, <<"@","c","l","i",".","c","o","m","m","a","n","d">>)
            \/ any_decorator(ctx, <<"@","a","p","p",".","c","o","m","m","a","n","d">>)
            \/ any_decorator(ctx, <<"@","c","l","i","c","k",".","c","o","m","m","a","n","d">>) THEN "cli_command"
    ELSE IF \/ any_decorator(ctx, <<"@","a","p","p",".">>)
            \/ any_decorator(ctx, <<"@","r","o","u","t","e","r",".">>) THEN "api_endpoint"
    ELSE IF any_decorator(ctx, <<"@","p","r","o","p","e","r","t","y">>) THEN "property"
    ELSE IF /\ endswith(ctx.name, <<"_","r","e","s","p","o","n","s","e">>)
            /\ ctx.returns_type # None
            /\ ctx.returns_type[1] # <<>>
            /\ contains(ctx.returns_type[1], <<"R","e","s","p","o","n","s","e">>) THEN "response_factory"
    ELSE IF \/ startswith(ctx.name, <<"o","n","_">>)
            \/ startswith(ctx.name, <<"h","a","n","d","l","e","_">>) THEN "event_handler"
    ELSE IF \/ any_decorator(ctx, <<"@","v","a","l","i","d","a","t","o","r">>)
            \/ any_decorator(ctx, <<"@","f","i","e","l","d","_","v","a","l","i","d","a","t","o","r">>) THEN "validator"
    ELSE IF \/ startswith(ctx.name, <<"i","s","_">>)
            \/ startswith(ctx.name, <<"h","a","s","_">>) THEN "boolean_check"
    ELSE IF startswith(ctx.name, <<"g","e","t","_">>) THEN "getter"
    ELSE IF /\ startswith(ctx.name, <<"_","_">>)
            /\ endswith(ctx.name, <<"_","_">>) THEN "special_method"
    ELSE IF /\ ctx.parent_class # None
            /\ ctx.parent_class[1] # <<>>
            /\ contains(ctx.parent_class[1], <<"T","e","s","t">>) THEN "test_method"
    ELSE "regular_function"

\* FunctionContext.context_type
context_type(ctx) ==
    IF startswith(ctx.name, <<"t","e","s","t","_">>) THEN "test_function"
    ELSE IF \/ any_decorator(ctx, <<"@","c","l","i",".","c","o","m","m","a","n","d">>)
            \/ any_decorator(ctx, <<"@","a","p","p",".","c","o","m","m","a","n","d">>)
            \/ any_decorator(ctx, <<"@","c","l","i","c","k",".","c","o","m","m","a","n","d">>) THEN "cli_command"
    ELSE IF \/ any_decorator(ctx, <<"@","a","p","p",".">>)
            \/ any_decorator(ctx, <<"@","r","o","u","t","e","r",".">>) THEN "api_endpoint"
    ELSE IF any_decorator(ctx, <<"@","p","y","t","e","s","t",".","f","i","x","t","u","r","e">>) THEN "pytest_fixture"
    ELSE IF any_decorator(ctx, <<"@","p","r","o","p","e","r","t","y">>) THEN "property"
    ELSE IF /\ endswith(ctx.name, <<"_","r","e","s","p","o","n","s","e">>)
            /\ ctx.returns_type # None
            /\ ctx.returns_type[1] # <<>>
            /\ contains(ctx.returns_type[1], <<"R","e","s","p","o","n","s","e">>) THEN "response_factory"
    ELSE IF \/ startswith(ctx.name, <<"o","n","_">>)
            \/ startswith(ctx.name, <<"h","a","n","d","l","e","_">>) THEN "event_handler"
    ELSE IF \/ any_decorator(ctx, <<"@","v","a","l","i","d","a","t","o","r">>)
            \/ any_decorator(ctx, <<"@","f","i","e","l","d","_","v","a","l","i","d","a","t","o","r">>) THEN "validator"
    ELSE IF \/ startswith(ctx.name, <<"i","s","_">>)
            \/ startswith(ctx.name, <<"h","a","s","_">>) THEN "boolean_check"
    ELSE IF startswith(ctx.name, <<"g","e","t","_">>) THEN "getter"
    ELSE IF /\ startswith(ctx.name, <<"_","_">>)
            /\ endswith(ctx.name, <<"_","_">>) THEN "special_method"
    ELSE IF /\ ctx.parent_class # None
            /\ ctx.parent_class[1] # <<>>
            /\ contains(ctx.parent_class[1], <<"T","e","s","t">>) THEN "test_method"
    ELSE "regular_function"

(***************************************************************************)
(* ContextAwareFunctionAnalyzer                                            *)
(***************************************************************************)
\* CONTEXT_RULES, the require_verb_prefix entry of each rule: "False",
\* "True" or "optional".
CONTEXT_RULES ==
    [ test_function    |-> [require_verb_prefix |-> "False"],
      cli_command      |-> [require_verb_prefix |-> "optional"],
      api_endpoint     |-> [require_verb_prefix |-> "True"],
      pytest_fixture   |-> [require_verb_prefix |-> "False"],
      property         |-> [require_verb_prefix |-> "False"],
      response_factory |-> [require_verb_prefix |-> "optional"],
      event_handler    |-> [require_verb_prefix |-> "True"],
      validator        |-> [require_verb_prefix |-> "optional"],
      boolean_check    |-> [require_verb_prefix |-> "True"],
      getter           |-> [require_verb_prefix |-> "True"],
      special_method   |-> [require_verb_prefix |-> "False"],
      regular_function |-> [require_verb_prefix |-> "True"] ]

\* The verbs of _has_verb_prefix.
verbs ==
    << <<"g","e","t">>, <<"s","e","t">>, <<"c","r","e","a","t","e">>, <<"u","p","d","a","t","e">>, <<"d","e","l","e","t","e">>, <<"r","e","m","o","v","e">>, <<"a","d","d">>,
       <<"p","r","o","c","e","s","s">>, <<"v","a","l","i","d","a","t","e">>, <<"c","h","e","c","k">>, <<"v","e","r","i","f","y">>, <<"e","n","s","u","r","e">>, <<"h","a","n","d","l","e">>,
       <<"p","a","r","s","e">>, <<"f","o","r","m","a","t">>, <<"c","o","n","v","e","r","t">>, <<"t","r","a","n","s","f","o","r","m">>, <<"b","u","i","l","d">>, <<"g","e","n","e","r","a","t","e">>,
       <<"l","o","a","d">>, <<"s","a","v","e">>, <<"r","e","a","d">>, <<"w","r","i","t","e">>, <<"f","e","t","c","h">>, <<"s","e","n","d">>, <<"r","e","c","e","i","v","e">>,
       <<"s","t","a","r","t">>, <<"s","t","o","p">>, <<"r","u","n">>, <<"e","x","e","c","u","t","e">>, <<"p","e","r","f","o","r","m">>, <<"c","a","l","c","u","l","a","t","e">>,
       <<"i","s">>, <<"h","a","s">>, <<"c","a","n">>, <<"s","h","o","u","l","d">>, <<"w","i","l","l">>, <<"m","u","s","t">> >>

\* A variant of _has_verb_prefix without the exact match: the name has to
\* start with a verb and the separator.
_has_verb_prefix_separator_only(name) ==
    \E i \in DOMAIN verbs : startswith(lower(name), verbs[i] \o <<"_">>)

\* ContextAwareFunctionAnalyzer._has_verb_prefix
_has_verb_prefix(name) ==
    LET name_lower == lower(name)
    IN  \E i \in DOMAIN verbs :
            \/ startswith(name_lower, verbs[i] \o <<"_">>)
            \/ name_lower = verbs[i]

\* Truth value of the docstring attribute: a non-empty str, Ellipsis, or a
\* non-zero number.
docstring_truthy(d) ==
    /\ d # None
    /\ CASE d[1].type = "str" -> d[1].text # <<>>
         [] d[1].type = "ellipsis" -> TRUE
         [] d[1].type = "int" -> d[1].val # 0

\* ContextAwareFunctionAnalyzer._suggest_name: [exc, value]; exc is "" or
\* the name of the exception raised, value the optional suggestion.
_suggest_name(ctx) ==
    LET name == ctx.name
        ctype == context_type(ctx)
        ret(v) == [exc |-> "", value |-> v]
        defaults ==
            IF ctype = "regular_function" THEN ret(Some(<<"p","r","o","c","e","s","s","_">> \o name))
            ELSE IF ctype = "api_endpoint" THEN ret(Some(<<"h","a","n","d","l","e","_">> \o name))
            ELSE ret(None)
    IN  IF ctype \in {"special_method", "property"} THEN ret(None)
        ELSE IF docstring_truthy(ctx.docstring)
        THEN IF ctx.docstring[1].type # "str"
             THEN [exc |-> "AttributeError", value |-> None]
             ELSE LET doc_lower == lower(ctx.docstring[1].text)
                  IN  IF \/ contains(doc_lower, <<"r","e","t","u","r","n">>)
                         \/ contains(doc_lower, <<"g","e","t">>)
                      THEN ret(Some(<<"g","e","t","_">> \o name))
                      ELSE IF contains(doc_lower, <<"c","r","e","a","t","e">>)
                      THEN ret(Some(<<"c","r","e","a","t","e","_">> \o name))
                      ELSE IF \/ contains(doc_lower, <<"c","h","e","c","k">>)
                              \/ contains(doc_lower, <<"v","a","l","i","d","a","t","e">>)
                      THEN ret(Some(<<"v","a","l","i","d","a","t","e","_">> \o name))
                      ELSE defaults
        ELSE defaults

\* ContextAwareFunctionAnalyzer._create_issue: [exc, value, stats]; the
\* violation counter is incremented before the suggestion is computed.
_create_issue(ctx, st) ==
    LET st1 == [st EXCEPT !.violations = @ + 1]
        suggestion == _suggest_name(ctx)
    IN  IF suggestion.exc # ""
        THEN [exc |-> suggestion.exc, value |-> None, stats |-> st1]
        ELSE [ exc   |-> "",
               value |-> Some([ line         |-> ctx.lineno,
                                function     |-> ctx.name,
                                context      |-> context_type(ctx),
                                issue        |-> "Missing verb prefix",
                                suggestion   |-> suggestion.value,
                                decorators   |-> ctx.decorators,
                                can_auto_fix |-> suggestion.value # None ]),
               stats |-> st1 ]

\* ContextAwareFunctionAnalyzer._get_cli_style: cli_style is what the
\* framework detector answers ("verb_noun" also when there is no detector).
_get_cli_style == cli_style

\* ContextAwareFunctionAnalyzer._check_function: [exc, value, stats]; value
\* is None or the issue.
_check_function(ctx, st) ==
    LET ctype == context_type(ctx)
    IN  IF ctype \notin DOMAIN CONTEXT_RULES
        THEN [exc |-> "KeyError", value |-> None, stats |-> st]
        ELSE LET rvp == CONTEXT_RULES[ctype].require_verb_prefix
                 none == [exc |-> "", value |-> None, stats |-> st]
                 \* "# Default check": rvp is "True" or "optional" here, both
                 \* truthy.
                 default_check ==
                     IF ~ _has_verb_prefix(ctx.name) /\ rvp # "False"
                     THEN _create_issue(ctx, st)
                     ELSE none
             IN  IF rvp = "False" THEN none
                 ELSE IF rvp = "True"
                 THEN IF ctype = "boolean_check" THEN none
                      ELSE IF ctype = "getter" THEN none
                      ELSE IF ~ _has_verb_prefix(ctx.name)
                      THEN _create_issue(ctx, st)
                      ELSE default_check
                 ELSE IF rvp = "optional"
                 THEN IF ctype = "cli_command"
                      THEN IF _get_cli_style = "rails"
                           THEN [none EXCEPT !.stats.exceptions_applied = @ + 1]
                           ELSE default_check
                      ELSE IF ctype = "response_factory"
                      THEN [none EXCEPT !.stats.exceptions_applied = @ + 1]
                      ELSE default_check
                 ELSE default_check

\* The value of stats after __init__.  by_context is a dict read with
\* .get(ctx_type, 0): a category that is no key counts 0.
Categories ==
    { "test_function", "cli_command", "api_endpoint", "pytest_fixture",
      "property", "response_factory", "event_handler", "validator",
      "boolean_check", "getter", "special_method", "test_method",
      "regular_function" }

InitStats ==
    [ total_functions    |-> 0,
      by_context         |-> [c \in Categories |-> 0],
      violations         |-> 0,
      exceptions_applied |-> 0 ]

\* The body of the loop of _analyze_node for a FunctionDef child.  acc is
\* [issues, stats, ctxs, exc]: the issues list, the analyzer's stats, the
\* FunctionContext objects built so far and the exception raised ("" when
\* none).  An exception of _check_function leaves the statistics update
\* undone.
with_parent(context, parent_class) ==
    IF parent_class # None /\ parent_class[1] # <<>>
    THEN [context EXCEPT !.parent_class = parent_class, !.is_method = TRUE]
    ELSE context

update_stats(acc, context, ctx_type, checked) ==
    IF checked.exc # ""
    THEN [acc EXCEPT !.stats = checked.stats,
                     !.ctxs = Append(@, [ctx |-> context,
                                         context_type |-> ctx_type]),
                     !.exc = checked.exc]
    ELSE [ issues |-> IF checked.value # None
                      THEN Append(acc.issues, checked.value[1])
                      ELSE acc.issues,
           stats  |-> [checked.stats EXCEPT
                          !.total_functions = @ + 1,
                          !.by_context[ctx_type] = @ + 1],
           ctxs   |-> Append(acc.ctxs, [ctx |-> context,
                                        context_type |-> ctx_type]),
           exc    |-> "" ]

check_and_count(acc, context) ==
    update_stats(acc, context, context_type(context),
                 _check_function(context, acc.stats))

visit_function(node, parent_class, acc) ==
    check_and_count(acc, with_parent(FunctionContext(node), parent_class))

\* ast.walk(node): breadth first, node itself first.  Only function and
\* class definitions matter to the analyzer, and they are reached through
\* the body of a node.
RECURSIVE walk_queue(_)
walk_queue(todo) ==
    IF todo = <<>> THEN <<>>
    ELSE <<Head(todo)>> \o walk_queue(Tail(todo) \o Head(todo).body)

walk(node) == walk_queue(<<node>>)

\* ContextAwareFunctionAnalyzer._analyze_node.  depth counts the nested
\* calls; Python raises RecursionError when they exceed its limit.
RECURSIVE _analyze_node(_, _, _, _)
RECURSIVE analyze_children(_, _, _, _, _)
RECURSIVE analyze_child(_, _, _, _)
analyze_child(child, parent_class, acc, depth) ==
    IF child.kind = "FunctionDef"
    THEN visit_function(child, parent_class, acc)
    ELSE IF child.kind = "ClassDef"
    THEN _analyze_node(child, Some(child.name), acc, depth + 1)
    ELSE acc

analyze_children(children, i, parent_class, acc, depth) ==
    IF i > Len(children) \/ acc.exc # "" THEN acc
    ELSE analyze_children(children, i + 1, parent_class,
             analyze_child(children[i], parent_class, acc, depth), depth)

_analyze_node(node, parent_class, acc, depth) ==
    IF depth > RecursionLimit
    THEN [acc EXCEPT !.exc = "RecursionError"]
    ELSE analyze_children(walk(node), 1, parent_class, acc, depth)

\* ContextAwareFunctionAnalyzer.analyze_file: [result, stats, ctxs].  file
\* is [parses |-> FALSE] when ast.parse rejects the text, else
\* [parses |-> TRUE, tree |-> Module].
file_result(done) ==
    [ result |-> IF done.exc # ""
                 THEN [kind |-> "error", error |-> done.exc]
                 ELSE [kind |-> "issues", issues |-> done.issues],
      stats  |-> done.stats,
      ctxs   |-> done.ctxs ]

analyze_file(file, st) ==
    IF ~ file.parses
    THEN [ result |-> [kind |-> "error", error |-> "SyntaxError"],
           stats  |-> st,
           ctxs   |-> <<>> ]
    ELSE file_result(_analyze_node(file.tree, None,
             [issues |-> <<>>, stats |-> st, ctxs |-> <<>>, exc |-> ""], 1))

(***************************************************************************)
(* AssignmentContext                                                       *)
(***************************************************************************)
\* An expression node is [node, text, left, right]: node is the class of
\* the ast node, text the id of a Name, the repr of a Constant or the attr
\* of an Attribute, left the func of a Call, the value of an Attribute, the
\* elts of a List, Tuple or Set or the keys of a Dict, right the args of a
\* Call or the values of a Dict.

RECURSIVE unparse(_)
RECURSIVE unparse_list(_, _)
\* The elements of exprs from the i-th on, unparsed and joined by ", ".
unparse_list(exprs, i) ==
    IF i > Len(exprs) THEN <<>>
    ELSE IF i = Len(exprs) THEN unparse(exprs[i])
    ELSE unparse(exprs[i]) \o <<","," ">> \o unparse_list(exprs, i + 1)

RECURSIVE unparse_items(_, _, _)
unparse_items(keys, values, i) ==
    IF i > Len(keys) THEN <<>>
    ELSE unparse(keys[i]) \o <<":"," ">> \o unparse(values[i])
         \o (IF i = Len(keys) THEN <<>> ELSE <<","," ">>)
         \o unparse_items(keys, values, i + 1)

\* ast.unparse(value_node)
unparse(e) ==
    CASE e.node = "Name" -> e.text
      [] e.node = "Constant" -> e.text
      [] e.node = "Attribute" -> unparse(e.left[1]) \o <<".">> \o e.text
      [] e.node = "Call" ->
            unparse(e.left[1]) \o <<"(">> \o unparse_list(e.right, 1) \o <<")">>
      [] e.node = "List" -> <<"[">> \o unparse_list(e.left, 1) \o <<"]">>
      [] e.node = "Tuple" ->
            <<"(">> \o unparse_list(e.left, 1)
            \o (IF Len(e.left) = 1 THEN <<",">> ELSE <<>>) \o <<")">>
      [] e.node = "Set" -> <<"{">> \o unparse_list(e.left, 1) \o <<"}">>
      [] e.node = "Dict" -> <<"{">> \o unparse_items(e.left, e.right, 1) \o <<"}">>

Whitespace == { " ", "\n", "\t" }

\* re.search(word + r'\s*' + close, s) for a literal word and a character.
search_then(s, word, close) ==
    \E i \in 1..(Len(s) - Len(word)) :
        /\ SubSeq(s, i, i + Len(word) - 1) = word
        /\ \E j \in (i + Len(word))..Len(s) :
               /\ s[j] = close
               /\ \A k \in (i + Len(word))..(j - 1) : s[k] \in Whitespace

\* AssignmentContext._is_typevar
_is_typevar(c) ==
    \/ \E w \in { <<"T","y","p","e","V","a","r">>, <<"P","a","r","a","m","S","p","e","c">>, <<"T","y","p","e","V","a","r","T","u","p","l","e">>, <<"N","e","w","T","y","p","e">> } :
           search_then(c.value_str, w, "(")
    \/ search_then(c.value_str, <<"T","y","p","e","A","l","i","a","s">>, "=")
    \/ search_then(c.value_str, <<"t","y","p","e">>, "[")

\* The names of singleton_patterns.
singleton_patterns ==
    { <<"F","a","s","t","A","P","I">>, <<"F","l","a","s","k">>, <<"T","y","p","e","r">>, <<"A","P","I","R","o","u","t","e","r">>, <<"B","l","u","e","p","r","i","n","t">>,
      <<"C","e","l","e","r","y">>, <<"R","e","d","i","s">>, <<"c","r","e","a","t","e","_","a","p","p">>, <<"g","e","t","_","a","p","p">>,
      <<"d","e","c","l","a","r","a","t","i","v","e","_","b","a","s","e">>, <<"s","e","s","s","i","o","n","m","a","k","e","r">>, <<"c","r","e","a","t","e","_","e","n","g","i","n","e">> }

\* AssignmentContext._is_singleton_instance
_is_singleton_instance(c) ==
    IF c.value_node.node = "Call"
    THEN \E w \in singleton_patterns : search_then(c.value_str, w, "(")
    ELSE FALSE

\* AssignmentContext._is_logger
_is_logger(c) ==
    \/ contains(c.value_str, <<"l","o","g","g","i","n","g",".","g","e","t","L","o","g","g","e","r">>)
    \/ \E w \in { <<"g","e","t","_","l","o","g","g","e","r">>, <<"L","o","g","g","e","r">>, <<"g","e","t","L","o","g","g","e","r">> } :
           search_then(c.value_str, w, "(")

config_names ==
    { <<"c","o","n","f","i","g">>, <<"s","e","t","t","i","n","g","s">>, <<"o","p","t","i","o","n","s">>, <<"p","a","r","a","m","s">>, <<"d","e","f","a","u","l","t","s">>,
      <<"m","o","d","e","l","s">>, <<"e","n","d","p","o","i","n","t","s">>, <<"r","o","u","t","e","s">>, <<"u","r","l","s">>, <<"p","a","t","h","s">> }

\* AssignmentContext._is_config_object
_is_config_object(c) ==
    IF c.value_node.node \in {"Dict", "List"}
    THEN \E n \in config_names : contains(lower(c.target), n)
    ELSE \/ contains(c.value_str, <<"C","o","n","f","i","g","(">>)
         \/ contains(c.value_str, <<"S","e","t","t","i","n","g","s","(">>)

\* AssignmentContext._is_compiled_regex
_is_compiled_regex(c) ==
    \/ contains(c.value_str, <<"r","e",".","c","o","m","p","i","l","e">>)
    \/ contains(c.value_str, <<"r","e","g","e","x",".","c","o","m","p","i","l","e">>)

\* AssignmentContext._is_env_var
_is_env_var(c) ==
    \/ contains(c.value_str, <<"o","s",".","e","n","v","i","r","o","n">>)
    \/ contains(c.value_str, <<"o","s",".","g","e","t","e","n","v">>)
    \/ search_then(c.value_str, <<"e","n","v">>, "[")
    \/ search_then(c.value_str, <<"g","e","t","e","n","v">>, "(")

\* AssignmentContext._is_literal_constant
_is_literal_constant(c) == c.value_node.node = "Constant"

\* AssignmentContext._is_collection_constant
_is_collection_constant(c) ==
    IF c.value_node.node \in {"List", "Tuple", "Set"}
    THEN \A i \in DOMAIN c.value_node.left :
             c.value_node.left[i].node = "Constant"
    ELSE IF c.value_node.node = "Dict"
    THEN \A i \in DOMAIN c.value_node.left :
             /\ c.value_node.left[i].node = "Constant"
             /\ c.value_node.right[i].node = "Constant"
    ELSE FALSE

\* AssignmentContext._determine_type
_determine_type(c) ==
    IF _is_typevar(c) THEN "typevar"
    ELSE IF _is_singleton_instance(c) THEN "singleton"
    ELSE IF _is_logger(c) THEN "logger"
    ELSE IF _is_config_object(c) THEN "config"
    ELSE IF _is_compiled_regex(c) THEN "regex"
    ELSE IF _is_env_var(c) THEN "env_var"
    ELSE IF _is_literal_constant(c) THEN "constant"
    ELSE IF _is_collection_constant(c) THEN "collection_constant"
    ELSE "unknown"

with_type(c) == [c EXCEPT !.assignment_type = _determine_type(c)]

\* AssignmentContext.__init__
AssignmentContext(target, value_node, lineno) ==
    with_type([ target          |-> target,
                value_node      |-> value_node,
                value_str       |-> unparse(value_node),
                lineno          |-> lineno,
                assignment_type |-> "" ])

(***************************************************************************)
(* SmartConstantAnalyzer                                                   *)
(***************************************************************************)
\* TYPE_RULES, the style entry of each rule.
TYPE_RULES ==
    [ typevar             |-> [style |-> "single_letter_or_pascal"],
      singleton           |-> [style |-> "lowercase"],
      logger              |-> [style |-> "lowercase"],
      config              |-> [style |-> "flexible"],
      regex               |-> [style |-> "uppercase"],
      env_var             |-> [style |-> "flexible"],
      constant            |-> [style |-> "uppercase"],
      collection_constant |-> [style |-> "uppercase"] ]

AssignmentTypes ==
    { "typevar", "singleton", "logger", "config", "regex", "env_var",
      "constant", "collection_constant", "unknown" }

\* The value of SmartConstantAnalyzer.stats after __init__.
InitConstStats ==
    [ total_assignments |-> 0,
      by_type           |-> [t \in AssignmentTypes |-> 0],
      violations        |-> 0,
      auto_classified   |-> 0 ]

\* str.isupper(): there is a cased character and no lowercase one.
isupper(s) ==
    /\ \E i \in DOMAIN s : IsUpperChar(s[i])
    /\ \A i \in DOMAIN s : ~ IsLowerChar(s[i])

\* str.islower()
islower(s) ==
    /\ \E i \in DOMAIN s : IsLowerChar(s[i])
    /\ \A i \in DOMAIN s : ~ IsUpperChar(s[i])

\* name.replace('_', '')
without_underscores(s) == SelectSeq(s, LAMBDA ch : ch # "_")

\* SmartConstantAnalyzer._is_uppercase
_is_uppercase(name) ==
    \/ isupper(name) /\ contains(name, <<"_">>)
    \/ isupper(name) /\ Len(name) > 1

\* A variant of _is_lowercase that accepts only names with an underscore.
_is_lowercase_underscore_only(name) ==
    contains(name, <<"_">>) /\ islower(without_underscores(name))

\* SmartConstantAnalyzer._is_lowercase
_is_lowercase(name) ==
    \/ islower(name)
    \/ contains(name, <<"_">>) /\ islower(without_underscores(name))

\* A variant of _is_pascal_case that accepts fully uppercase names.
_is_pascal_case_or_upper(name) ==
    IsUpperChar(name[1]) /\ ~ contains(name, <<"_">>)

\* SmartConstantAnalyzer._is_pascal_case
_is_pascal_case(name) ==
    /\ IsUpperChar(name[1])
    /\ ~ contains(name, <<"_">>)
    /\ ~ isupper(name)

\* A variant of _can_auto_fix that excludes the typevar only.
_can_auto_fix_but_typevar(c) == c.assignment_type # "typevar"

\* SmartConstantAnalyzer._can_auto_fix
_can_auto_fix(c) ==
    IF c.assignment_type \in {"typevar", "singleton", "logger"} THEN FALSE
    ELSE IF c.assignment_type \in {"constant", "collection_constant", "regex"}
    THEN TRUE
    ELSE FALSE

\* The first 50 characters of the value and "..." when it has more.
current_value(value_str) ==
    IF Len(value_str) > ValueLimit
    THEN SubSeq(value_str, 1, ValueLimit) \o <<".",".",".">>
    ELSE value_str

\* A variant of _create_issue that calls only the first violation of an
\* analyzer auto-fixable.
create_assignment_issue_first_only(c, message, st) ==
    [ value |-> Some([ line          |-> c.lineno,
                       name          |-> c.target,
                       current_value |-> current_value(c.value_str),
                       type          |-> c.assignment_type,
                       issue         |-> message,
                       auto_fixable  |-> _can_auto_fix(c) /\ st.violations = 0 ]),
      stats |-> [st EXCEPT !.violations = @ + 1] ]

\* SmartConstantAnalyzer._create_issue: [value, stats]
create_assignment_issue(c, message, st) ==
    [ value |-> Some([ line          |-> c.lineno,
                       name          |-> c.target,
                       current_value |-> current_value(c.value_str),
                       type          |-> c.assignment_type,
                       issue         |-> message,
                       auto_fixable  |-> _can_auto_fix(c) ]),
      stats |-> [st EXCEPT !.violations = @ + 1] ]

\* SmartConstantAnalyzer._check_assignment: [value, stats]; value is None
\* or the issue.
_check_assignment(c, st) ==
    IF c.assignment_type = "unknown" THEN [value |-> None, stats |-> st]
    ELSE IF TYPE_RULES[c.assignment_type].style = "uppercase"
    THEN IF ~ _is_uppercase(c.target)
         THEN create_assignment_issue(c, "should be UPPER_CASE", st)
         ELSE [value |-> None, stats |-> st]
    ELSE IF TYPE_RULES[c.assignment_type].style = "lowercase"
    THEN IF ~ _is_lowercase(c.target)
         THEN create_assignment_issue(c, "should be lowercase",
                  [st EXCEPT !.auto_classified = @ + 1])
         ELSE [value |-> None, stats |-> st]
    ELSE IF TYPE_RULES[c.assignment_type].style = "single_letter_or_pascal"
    THEN IF ~ (Len(c.target) = 1 /\ isupper(c.target))
            /\ ~ _is_pascal_case(c.target)
         THEN create_assignment_issue(c,
                  "should be single letter or PascalCase", st)
         ELSE [value |-> None, stats |-> st]
    ELSE IF TYPE_RULES[c.assignment_type].style = "flexible"
    THEN [value |-> None, stats |-> [st EXCEPT !.auto_classified = @ + 1]]
    ELSE [value |-> None, stats |-> st]

\* What _analyze_module does with one assignment context: the issue, if
\* any, is appended; counted says whether the statistics are updated (they
\* are for a plain assignment, not for an annotated one).
add_checked(acc, c, checked, counted) ==
    [ issues |-> IF checked.value # None
                 THEN Append(acc.issues, checked.value[1])
                 ELSE acc.issues,
      stats  |-> IF counted
                 THEN [checked.stats EXCEPT
                          !.total_assignments = @ + 1,
                          !.by_type[c.assignment_type] = @ + 1]
                 ELSE checked.stats,
      ctxs   |-> Append(acc.ctxs, c) ]

check_assignment(acc, c, counted) ==
    add_checked(acc, c, _check_assignment(c, acc.stats), counted)

RECURSIVE analyze_targets(_, _, _)
analyze_targets(node, i, acc) ==
    IF i > Len(node.targets) THEN acc
    ELSE analyze_targets(node, i + 1,
             check_assignment(acc,
                 AssignmentContext(node.targets[i], node.value, node.lineno),
                 TRUE))

\* SmartConstantAnalyzer._analyze_module, from the i-th statement of the
\* body on.  A statement is [kind, targets, value, lineno, end_lineno,
\* body]: targets holds the ids of the Name targets (one for an AnnAssign),
\* value the optional value expression (an Assign always has one).
RECURSIVE _analyze_module(_, _, _)
_analyze_module(body, i, acc) ==
    IF i > Len(body) THEN acc
    ELSE _analyze_module(body, i + 1,
             IF body[i].kind = "Assign"
             THEN analyze_targets([body[i] EXCEPT !.value = @[1]], 1, acc)
             ELSE IF body[i].kind = "AnnAssign" /\ body[i].value # None
             THEN check_assignment(acc,
                      AssignmentContext(body[i].targets[1], body[i].value[1],
                                        body[i].lineno),
                      FALSE)
             ELSE acc)

(***************************************************************************)
(* CodeMigrator                                                            *)
(***************************************************************************)
\* The characters [0-9] matches.
IsDigit(ch) == ch \in {"0", "1", "2", "3", "4", "5", "6", "7", "8", "9"}

upper_char(c) ==
    IF IsLowerChar(c)
    THEN UpperChars[CHOOSE i \in DOMAIN LowerChars : LowerChars[i] = c]
    ELSE c

\* str.upper()
upper(s) == [i \in DOMAIN s |-> upper_char(s[i])]

\* The index after the run of lowercase letters that starts at i.
RECURSIVE lower_run_end(_, _)
lower_run_end(s, i) ==
    IF i <= Len(s) /\ IsLowerChar(s[i]) THEN lower_run_end(s, i + 1) ELSE i

\* re.sub('(.)([A-Z][a-z]+)', r'\1_\2', s), from index i on: matches are
\* taken leftmost first and do not overlap.
RECURSIVE sub_capitalized_word(_, _)
sub_capitalized_word(s, i) ==
    IF i > Len(s) THEN <<>>
    ELSE IF /\ i + 2 <= Len(s)
            /\ s[i] # "\n"
            /\ IsUpperChar(s[i + 1])
            /\ IsLowerChar(s[i + 2])
    THEN <<s[i], "_">>
         \o SubSeq(s, i + 1, lower_run_end(s, i + 2) - 1)
         \o sub_capitalized_word(s, lower_run_end(s, i + 2))
    ELSE <<s[i]>> \o sub_capitalized_word(s, i + 1)

\* re.sub('([a-z0-9])([A-Z])', r'\1_\2', s), from index i on.
RECURSIVE sub_capital_after_lower(_, _)
sub_capital_after_lower(s, i) ==
    IF i > Len(s) THEN <<>>
    ELSE IF /\ i + 1 <= Len(s)
            /\ IsLowerChar(s[i]) \/ IsDigit(s[i])
            /\ IsUpperChar(s[i + 1])
    THEN <<s[i], "_", s[i + 1]>> \o sub_capital_after_lower(s, i + 2)
    ELSE <<s[i]>> \o sub_capital_after_lower(s, i + 1)

\* A variant of _suggest_constant_name that only uppercases the name.
_suggest_constant_name_upper_only(name) == upper(name)

\* CodeMigrator._suggest_constant_name
_suggest_constant_name(name) ==
    upper(sub_capital_after_lower(sub_capitalized_word(name, 1), 1))

\* The characters \w matches.
IsWordChar(ch) ==
    IsLowerChar(ch) \/ IsUpperChar(ch) \/ IsDigit(ch) \/ ch = "_"

\* The index of the "(" that follows position i after optional whitespace,
\* 0 when there is none: the \s*\( of _apply_function_fix.
RECURSIVE paren_after(_, _)
paren_after(text, i) ==
    IF i > Len(text) THEN 0
    ELSE IF text[i] = "(" THEN i
    ELSE IF text[i] \in Whitespace THEN paren_after(text, i + 1)
    ELSE 0

\* re.sub(rf'\b{old}\b', new, text) when call is FALSE and
\* re.sub(rf'\b{old}\s*\(', f'{new}(', text) when it is TRUE, from index i
\* on; old is an identifier.
RECURSIVE sub_word(_, _, _, _, _)
sub_word(text, i, old, new, call) ==
    IF i > Len(text) THEN <<>>
    ELSE IF /\ i + Len(old) - 1 <= Len(text)
            /\ SubSeq(text, i, i + Len(old) - 1) = old
            /\ i = 1 \/ ~ IsWordChar(text[i - 1])
            /\ IF call THEN paren_after(text, i + Len(old)) # 0
               ELSE i + Len(old) > Len(text)
                    \/ ~ IsWordChar(text[i + Len(old)])
    THEN IF call
         THEN new \o <<"(">>
              \o sub_word(text, paren_after(text, i + Len(old)) + 1, old, new, call)
         ELSE new \o sub_word(text, i + Len(old), old, new, call)
    ELSE <<text[i]>> \o sub_word(text, i + 1, old, new, call)

\* The substitution in the source text of an expression.  The text of a
\* Name or Attribute is followed by "(" exactly when the node is the func
\* of a Call (is_func).
RECURSIVE sub_expr(_, _, _, _, _)
sub_expr(e, old, new, call, is_func) ==
    [ node  |-> e.node,
      text  |-> IF call /\ e.node \in {"Name", "Attribute"}
                THEN IF is_func /\ e.text = old THEN new ELSE e.text
                ELSE sub_word(e.text, 1, old, new, call),
      left  |-> [i \in DOMAIN e.left |->
                    sub_expr(e.left[i], old, new, call, e.node = "Call")],
      right |-> [i \in DOMAIN e.right |->
                    sub_expr(e.right[i], old, new, call, FALSE)] ]

\* The substitution in the source text of a statement: `def name(` is
\* followed by "(", a class name and an assignment target are not.
RECURSIVE sub_stmt(_, _, _, _)
sub_stmt(stmt, old, new, call) ==
    IF stmt.kind = "FunctionDef"
    THEN [stmt EXCEPT
             !.name = IF @ = old THEN new ELSE @,
             !.decorator_lines =
                 [i \in DOMAIN @ |-> sub_word(@[i], 1, old, new, call)],
             !.returns =
                 [i \in DOMAIN @ |-> sub_word(@[i], 1, old, new, call)],
             !.first_const =
                 [i \in DOMAIN @ |->
                     IF @[i].type = "str"
                     THEN [@[i] EXCEPT !.text = sub_word(@, 1, old, new, call)]
                     ELSE @[i]],
             !.body = [i \in DOMAIN @ |-> sub_stmt(@[i], old, new, call)]]
    ELSE IF stmt.kind = "ClassDef"
    THEN [stmt EXCEPT
             !.name = IF @ = old /\ ~ call THEN new ELSE @,
             !.body = [i \in DOMAIN @ |-> sub_stmt(@[i], old, new, call)]]
    ELSE [stmt EXCEPT
             !.targets = [i \in DOMAIN @ |->
                             IF @[i] = old /\ ~ call THEN new ELSE @[i]],
             !.value = [i \in DOMAIN @ |->
                           sub_expr(@[i], old, new, call, FALSE)]]

\* CodeMigrator._apply_function_fix on the content of a file that parses:
\* the first substitution, of `def old(`, is covered by the second, of
\* `old(`.
_apply_function_fix(content, old_name, new_name) ==
    [content EXCEPT !.tree.body =
        [i \in DOMAIN @ |-> sub_stmt(@[i], old_name, new_name, TRUE)]]

\* CodeMigrator._apply_constant_fix
_apply_constant_fix(content, old_name, new_name) ==
    [content EXCEPT !.tree.body =
        [i \in DOMAIN @ |-> sub_stmt(@[i], old_name, new_name, FALSE)]]

\* x[1].get('line', 0), the sort key of _migrate_file_interactive.
line_key(entry) ==
    IF "line" \in DOMAIN entry.issue THEN entry.issue.line ELSE 0

\* issues.sort(key=line, reverse=True): by decreasing line, issues of one
\* line in the order they had.
RECURSIVE sort_by_line_reversed(_)
sort_by_line_reversed(issues) ==
    IF issues = <<>> THEN <<>>
    ELSE SelectSeq(issues, LAMBDA x :
             \A j \in DOMAIN issues : line_key(issues[j]) <= line_key(x))
         \o sort_by_line_reversed(SelectSeq(issues, LAMBDA x :
             \E j \in DOMAIN issues : line_key(issues[j]) > line_key(x)))

\* The branches of the loop of _migrate_file_interactive for an issue that
\* is offered.  acc is [path, content, changes, quit, suggestions, events]:
\* modified_content, changes_made, whether the user answered q, and what
\* was printed and asked since migrate_interactive began.  The old and new
\* name stand for the text "Renamed old to new".
offer_fix(acc, entry, response) ==
    LET name == IF entry.type = "function" THEN entry.issue.function
                ELSE entry.issue.name
        suggestion == IF entry.type = "function" THEN entry.issue.suggestion[1]
                      ELSE _suggest_constant_name(entry.issue.name)
    IN  [acc EXCEPT
            !.suggestions = Append(@, [name |-> name, suggestion |-> suggestion]),
            !.events = Append(@, [event |-> "prompt", file |-> acc.path,
                                  name |-> name, answer |-> response]),
            !.content = IF response # "y" THEN @
                        ELSE IF entry.type = "function"
                        THEN _apply_function_fix(@, name, suggestion)
                        ELSE _apply_constant_fix(@, name, suggestion),
            !.changes = IF response = "y"
                        THEN Append(@, [old |-> name, new |-> suggestion])
                        ELSE @,
            !.quit = response = "q"]

\* Whether the loop offers a fix for the entry: issue.get('can_auto_fix')
\* and issue.get('suggestion') of a function issue, issue.get('auto_fixable')
\* of a constant issue.  An error record has none of these keys.
offered(entry) ==
    IF entry.type = "function"
    THEN /\ "can_auto_fix" \in DOMAIN entry.issue
         /\ entry.issue.can_auto_fix
         /\ entry.issue.suggestion # None
         /\ entry.issue.suggestion[1] # <<>>
    ELSE /\ "auto_fixable" \in DOMAIN entry.issue
         /\ entry.issue.auto_fixable

\* The loop over the sorted issues; the k-th question of the run is
\* answered responses[k].
RECURSIVE offer_fixes(_, _, _, _)
offer_fixes(issues, i, responses, acc) ==
    IF i > Len(issues) \/ acc.quit THEN acc
    ELSE IF offered(issues[i])
    THEN offer_fixes(issues, i + 1, responses,
                     offer_fix(acc, issues[i], responses[Len(acc.suggestions) + 1]))
    ELSE offer_fixes(issues, i + 1, responses, acc)

\* A variant of the condition to save that ignores dry_run.
saves_in_dry_run_too(changes_made, dry_run) == changes_made # <<>>

\* `if changes_made and not dry_run`
saves(changes_made, dry_run) == changes_made # <<>> /\ ~ dry_run

\* The file of the project at path.
file_at(files, path) ==
    files[CHOOSE i \in DOMAIN files : files[i].path = path].file

\* The end of _migrate_file_interactive.  w is [project, migrator,
\* suggestions, events]; project is [files, backup_dir, log]: the files
\* under project_root, the files of .grammar-ops-backup (None when the
\* directory does not exist) and the saved migration log.  After q nothing
\* is saved and the file enters neither fixed_files nor skipped_files.
file_migrated(w, done, dry_run) ==
    IF done.quit
    THEN [w EXCEPT !.suggestions = done.suggestions, !.events = done.events]
    ELSE IF saves(done.changes, dry_run)
    THEN [ project |->
             [ w.project EXCEPT
                 !.backup_dir =
                     Some({ b \in (IF @ = None THEN {} ELSE @[1]) :
                              b.path # done.path }
                          \cup { [ path |-> done.path,
                                   file |-> file_at(w.project.files, done.path) ] }),
                 !.files = [i \in DOMAIN @ |->
                               IF @[i].path = done.path
                               THEN [@[i] EXCEPT !.file = done.content]
                               ELSE @[i]] ],
           migrator |->
             [ w.migrator EXCEPT
                 !.fixed_files = @ \cup {done.path},
                 !.migration_log =
                     Append(@, [file |-> done.path, changes |-> done.changes]) ],
           suggestions |-> done.suggestions,
           events |-> done.events
                      \o << [event |-> "backup", file |-> done.path],
                            [event |-> "write", file |-> done.path] >> ]
    ELSE [w EXCEPT !.migrator.skipped_files = @ \cup {done.path},
                   !.suggestions = done.suggestions,
                   !.events = done.events]

\* CodeMigrator._migrate_file_interactive
_migrate_file_interactive(path, issues, responses, dry_run, w) ==
    file_migrated(w,
        offer_fixes(sort_by_line_reversed(issues), 1, responses,
            [ path |-> path, content |-> file_at(w.project.files, path),
              changes |-> <<>>, quit |-> FALSE,
              suggestions |-> w.suggestions, events |-> w.events ]),
        dry_run)

\* The keys of files_to_fix in the order they were inserted: the paths of
\* entries from the i-th on that are not in seen.
RECURSIVE paths_in_order(_, _, _)
paths_in_order(entries, i, seen) ==
    IF i > Len(entries) THEN <<>>
    ELSE IF entries[i].issue.file \in seen
    THEN paths_in_order(entries, i + 1, seen)
    ELSE << entries[i].issue.file >>
         \o paths_in_order(entries, i + 1, seen \cup {entries[i].issue.file})

\* CodeMigrator._group_issues_by_file: files_to_fix as a sequence of
\* [path, issues], the issues of a file being its ('function', issue)
\* entries followed by its ('constant', issue) entries.
_group_issues_by_file(issues) ==
    LET entries ==
            [i \in DOMAIN issues.functions |->
                [type |-> "function", issue |-> issues.functions[i]]]
            \o [i \in DOMAIN issues.constants |->
                [type |-> "constant", issue |-> issues.constants[i]]]
        paths == paths_in_order(entries, 1, {})
    IN  [k \in DOMAIN paths |->
            [ path   |-> paths[k],
              issues |-> SelectSeq(entries,
                             LAMBDA entry : entry.issue.file = paths[k]) ]]

\* The loop of migrate_interactive over files_to_fix: a q in one file does
\* not end it.
RECURSIVE migrate_files(_, _, _, _, _)
migrate_files(files_to_fix, k, responses, dry_run, w) ==
    IF k > Len(files_to_fix) THEN w
    ELSE migrate_files(files_to_fix, k + 1, responses, dry_run,
             _migrate_file_interactive(files_to_fix[k].path,
                 files_to_fix[k].issues, responses, dry_run, w))

\* CodeMigrator.migrate_interactive
migrate_interactive(issues, responses, dry_run, w) ==
    IF issues.total = 0 THEN w
    ELSE migrate_files(_group_issues_by_file(issues), 1, responses, dry_run,
             [w EXCEPT !.project.backup_dir =
                 IF ~ dry_run /\ @ = None THEN Some({}) ELSE @])

\* CodeMigrator.rollback: the project after it.
rollback(proj, fixed_files) ==
    IF proj.backup_dir = None THEN proj
    ELSE [ proj EXCEPT
             !.files = [i \in DOMAIN @ |->
                 IF /\ @[i].path \in fixed_files
                    /\ \E b \in proj.backup_dir[1] : b.path = @[i].path
                 THEN [@[i] EXCEPT !.file =
                          (CHOOSE b \in proj.backup_dir[1] :
                              b.path = @[i].path).file]
                 ELSE @[i]],
             !.backup_dir = None ]

\* The migration state of CodeMigrator after __init__.
InitMigrator ==
    [fixed_files |-> {}, skipped_files |-> {}, migration_log |-> <<>>]

(***************************************************************************)
(* The analyzers' issues attribute and what reads it                       *)
(***************************************************************************)
\* self.issues of the function analyzer and of the constant analyzer after
\* __init__.
NoIssues == [functions |-> <<>>, constants |-> <<>>]

\* A variant of analyze_file that records what it returns in self.issues.
issues_after_analyze_file_recording(self_issues, returned) ==
    self_issues \o returned

\* self.issues after a call of analyze_file that returned the list returned:
\* analyze_file and _analyze_node / _analyze_module fill a local list and
\* return it, the attribute is not written.
issues_after_analyze_file(self_issues, returned) == self_issues

\* get_report: whether the report has a "Top issues" section.
get_report_top_issues(self_issues) == self_issues # <<>>

\* The issues of self.issues with issue['type'] == issue_type.
exceptions_of(self_issues, issue_type) ==
    SelectSeq(self_issues, LAMBDA issue : issue.type = issue_type)

\* SmartConstantAnalyzer.generate_exceptions
generate_exceptions(self_issues) ==
    LET singletons == exceptions_of(self_issues, "singleton")
        loggers    == exceptions_of(self_issues, "logger")
        typevars   == exceptions_of(self_issues, "typevar")
    IN  [ singletons |-> [i \in DOMAIN singletons |->
                             singletons[i].name \o <<" ","="," ">>
                             \o singletons[i].current_value],
          loggers    |-> [i \in DOMAIN loggers |-> loggers[i].name],
          typevars   |-> [i \in DOMAIN typevars |->
                             typevars[i].name \o <<" ","="," ","T","y","p","e","V","a","r","(">>] ]

(***************************************************************************)
(* CodeMigrator.analyze                                                    *)
(***************************************************************************)
\* SmartConstantAnalyzer.analyze_file: [result, stats, ctxs], as
\* analyze_file above.
module_result(done) ==
    [ result |-> [kind |-> "issues", issues |-> done.issues],
      stats  |-> done.stats,
      ctxs   |-> done.ctxs ]

constant_analyze_file(file, st) ==
    IF ~ file.parses
    THEN [ result |-> [kind |-> "error", error |-> "SyntaxError"],
           stats  |-> st,
           ctxs   |-> <<>> ]
    ELSE module_result(_analyze_module(file.tree.body, 1,
             [issues |-> <<>>, stats |-> st, ctxs |-> <<>>]))

\* An issue with its 'file' key.
with_file(issue, path) ==
    [k \in DOMAIN issue \cup {"file"} |->
        IF k = "file" THEN path ELSE issue[k]]

\* The list analyze_file returns for the file at path: the issues, or one
\* error record.
returned_list(answer, path) ==
    IF answer.kind = "error"
    THEN << [file |-> path, error |-> answer.error] >>
    ELSE [i \in DOMAIN answer.issues |-> with_file(answer.issues[i], path)]

\* The patterns _should_skip_file looks for when the configuration
\* excludes no path.
skip_patterns ==
    { <<".","g","i","t">>, <<"_","_","p","y","c","a","c","h","e","_","_">>, <<"m","i","g","r","a","t","i","o","n","s">>, <<".","g","r","a","m","m","a","r","-","o","p","s","-","b","a","c","k","u","p">> }

\* CodeMigrator._should_skip_file
_should_skip_file(path) == \E pattern \in skip_patterns : contains(path, pattern)

\* The body of the loop of analyze for a file that is not skipped.  acc is
\* [functions, constants, stats, const_stats, ctxs, self_issues]; f and c
\* are what the two analyzers answered.
extended(acc, path, f, c) ==
    [ functions   |-> acc.functions \o returned_list(f.result, path),
      constants   |-> acc.constants \o returned_list(c.result, path),
      stats       |-> f.stats,
      const_stats |-> c.stats,
      ctxs        |-> acc.ctxs \o f.ctxs \o c.ctxs,
      self_issues |->
          [ functions |-> issues_after_analyze_file(acc.self_issues.functions,
                              returned_list(f.result, path)),
            constants |-> issues_after_analyze_file(acc.self_issues.constants,
                              returned_list(c.result, path)) ] ]

analyze_py_file(acc, py_file) ==
    extended(acc, py_file.path,
             analyze_file(py_file.file, acc.stats),
             constant_analyze_file(py_file.file, acc.const_stats))

RECURSIVE analyze_files(_, _, _)
analyze_files(py_files, i, acc) ==
    IF i > Len(py_files) THEN acc
    ELSE analyze_files(py_files, i + 1,
             IF _should_skip_file(py_files[i].path) THEN acc
             ELSE analyze_py_file(acc, py_files[i]))

\* What analyze returns and leaves in the analyzers.
analyzed(done) ==
    [ result      |-> [ kind      |-> "analysis",
                        functions |-> done.functions,
                        constants |-> done.constants,
                        total     |-> Len(done.functions) + Len(done.constants) ],
      stats       |-> done.stats,
      const_stats |-> done.const_stats,
      ctxs        |-> done.ctxs,
      self_issues |-> done.self_issues ]

\* CodeMigrator.analyze on the files py_files, a sequence of [path, file],
\* with analyzers whose counters are st and cst and whose issues
\* attributes are self_issues.
analyze(py_files, st, cst, self_issues) ==
    analyzed(analyze_files(py_files, 1,
        [ functions |-> <<>>, constants |-> <<>>, stats |-> st,
          const_stats |-> cst, ctxs |-> <<>>, self_issues |-> self_issues ]))

\* No project, no migrator and no worker thread: the analyzers are used
\* alone.
InitTool ==
    /\ analyzer_issues = NoIssues
    /\ project = <<>>
    /\ migrator = <<>>
    /\ workers = <<>>

(***************************************************************************)
(* Threads that share one analyzer                                         *)
(***************************************************************************)
\* The counters of self.stats that the visit of one function increments, in
\* the order of the code: violations (_create_issue) or exceptions_applied
\* inside _check_function, then total_functions and by_context[ctx_type]
\* unless _check_function raised.
counter_updates(entry, checked) ==
    (IF checked.stats.violations > 0 THEN << "violations" >>
     ELSE IF checked.stats.exceptions_applied > 0 THEN << "exceptions_applied" >>
     ELSE <<>>)
    \o (IF checked.exc # "" THEN <<>>
        ELSE << "total_functions", entry.context_type >>)

\* The counter updates of analyze_file on a file whose visits are entries.
RECURSIVE file_updates(_, _)
file_updates(entries, i) ==
    IF i > Len(entries) THEN <<>>
    ELSE counter_updates(entries[i], _check_function(entries[i].ctx, InitStats))
         \o file_updates(entries, i + 1)

(***************************************************************************)
(* Inputs                                                                  *)
(***************************************************************************)
\* What FrameworkDetector.get_cli_style can answer.
CliStyles == {"rails", "verb_noun"}

FunctionDef(name, decorator_lines, returns, first_const, lineno, end_lineno, body) ==
    [ kind            |-> "FunctionDef",
      name            |-> name,
      decorator_lines |-> decorator_lines,
      returns         |-> returns,
      first_const     |-> first_const,
      lineno          |-> lineno,
      end_lineno      |-> end_lineno,
      body            |-> body ]

ClassDef(name, lineno, end_lineno, body) ==
    [ kind |-> "ClassDef", name |-> name, lineno |-> lineno,
      end_lineno |-> end_lineno, body |-> body ]

Module(body) == [kind |-> "Module", body |-> body]

Str(text) == Some([type |-> "str", text |-> text])
Ellipsis == Some([type |-> "ellipsis"])
Num(n) == Some([type |-> "int", val |-> n])

Names ==
    { <<"t","e","s","t","_","g","e","t","_","u","s","e","r">>, <<"s","t","a","r","t">>, <<"d","e","p","l","o","y">>, <<"g","e","t","_","u","s","e","r">>, <<"g","e","t","u","s","e","r">>,
      <<"G","e","t","_","u","s","e","r">>, <<"o","n","_","c","l","i","c","k">>, <<"h","a","n","d","l","e","_","r","e","q","u","e","s","t">>, <<"i","s","_","v","a","l","i","d">>,
      <<"h","a","s","_","r","o","l","e">>, <<"_","_","i","n","i","t","_","_">>, <<"s","u","c","c","e","s","s","_","r","e","s","p","o","n","s","e">>, <<"g","e","t","_","r","e","s","p","o","n","s","e">>,
      <<"o","n","_","r","e","s","p","o","n","s","e">>, <<"e","m","a","i","l","_","m","u","s","t","_","b","e","_","u","n","i","q","u","e">>, <<"v","a","l","i","d","a","t","e","_","e","m","a","i","l">>,
      <<"u","s","e","r">> }

\* Decorator lines of the source, alone and in pairs.  A marker text with
\* its "@" reaches the decorator strings only inside the decorator's
\* expression, as in @doc('@cli.command').
DecoratorLists ==
    { <<>>,
      << <<"@","c","l","i",".","c","o","m","m","a","n","d","(",")">> >>,
      << <<"@","a","p","p",".","g","e","t","(","'","/","u","s","e","r","s","'",")">> >>,
      << <<"@","p","y","t","e","s","t",".","f","i","x","t","u","r","e">> >>,
      << <<"@","p","r","o","p","e","r","t","y">> >>,
      << <<"@","v","a","l","i","d","a","t","o","r","(","'","e","m","a","i","l","'",")">> >>,
      << <<"@","d","o","c","(","'","@","c","l","i",".","c","o","m","m","a","n","d","'",")">> >>,
      << <<"@","d","o","c","(","'","@","a","p","p",".","c","o","m","m","a","n","d","'",")">> >>,
      << <<"@","d","o","c","(","'","@","c","l","i","c","k",".","c","o","m","m","a","n","d","'",")">> >>,
      << <<"@","d","o","c","(","'","@","a","p","p",".","g","e","t","'",")">> >>,
      << <<"@","d","o","c","(","'","@","r","o","u","t","e","r",".","p","o","s","t","'",")">> >>,
      << <<"@","d","o","c","(","'","@","p","y","t","e","s","t",".","f","i","x","t","u","r","e","'",")">> >>,
      << <<"@","d","o","c","(","'","@","p","r","o","p","e","r","t","y","'",")">> >>,
      << <<"@","d","o","c","(","'","@","v","a","l","i","d","a","t","o","r","'",")">> >>,
      << <<"@","d","o","c","(","'","@","f","i","e","l","d","_","v","a","l","i","d","a","t","o","r","'",")">> >>,
      << <<"@","d","o","c","(","'","@","p","y","t","e","s","t",".","f","i","x","t","u","r","e","'",")">>, <<"@","d","o","c","(","'","@","c","l","i",".","c","o","m","m","a","n","d","'",")">> >>,
      << <<"@","d","o","c","(","'","@","p","r","o","p","e","r","t","y","'",")">>, <<"@","d","o","c","(","'","@","r","o","u","t","e","r",".","p","o","s","t","'",")">> >>,
      << <<"@","d","o","c","(","'","@","v","a","l","i","d","a","t","o","r","'",")">>, <<"@","d","o","c","(","'","@","p","r","o","p","e","r","t","y","'",")">> >> }

Returns == { None, Some(<<"J","S","O","N","R","e","s","p","o","n","s","e">>), Some(<<"d","i","c","t">>) }

FirstConsts ==
    { None, Str(<<"R","e","t","u","r","n"," ","t","h","e"," ","u","s","e","r",".">>), Str(<<"D","o"," ","i","t",".">>), Ellipsis, Num(1),
      Str(<<"C","r","e","a","t","e"," ","i","t",".">>), Str(<<"C","h","e","c","k"," ","i","t",".">>), Str(<<"C","r","e","a","t","e"," ","o","r"," ","g","e","t"," ","i","t",".">>),
      Str(<<"D","o"," ","i","t",".","\n","R","e","t","u","r","n"," ","t","h","e"," ","u","s","e","r",".">>) }

ParentClasses == { None, Some(<<"T","e","s","t","U","s","e","r">>), Some(<<"U","s","e","r">>) }

\* One function definition and the parent_class it is analyzed with.
FunctionInputs ==
    { [ node |-> FunctionDef(n, d, r, c, 1, 2, <<>>), parent_class |-> p ] :
        n \in Names, d \in DecoratorLists, r \in Returns, c \in FirstConsts,
        p \in ParentClasses }

\* Top-level statements of a file, with line numbers as if first in it.
Statements ==
    { FunctionDef(<<"s","t","a","r","t">>, << <<"@","c","l","i",".","c","o","m","m","a","n","d","(",")">> >>, None, None, 2, 3, <<>>),
      FunctionDef(<<"d","e","p","l","o","y">>, <<>>, None, None, 1, 2, <<>>),
      FunctionDef(<<"g","e","t","_","u","s","e","r">>, <<>>, None, Str(<<"R","e","t","u","r","n"," ","t","h","e"," ","u","s","e","r",".">>), 1, 2, <<>>),
      FunctionDef(<<"r","e","n","d","e","r">>, <<>>, None, Ellipsis, 1, 1, <<>>),
      FunctionDef(<<"l","o","a","d">>, <<>>, None, None, 1, 3,
          << FunctionDef(<<"h","e","l","p","e","r">>, <<>>, None, None, 2, 3, <<>>) >>),
      ClassDef(<<"T","e","s","t","U","s","e","r">>, 1, 3,
          << FunctionDef(<<"l","o","g","i","n">>, <<>>, None, None, 2, 3, <<>>) >>),
      ClassDef(<<"U","s","e","r">>, 1, 2, <<>>) }

\* stmt moved down by base lines.
RECURSIVE relocate(_, _)
relocate(stmt, base) ==
    [stmt EXCEPT !.lineno = @ + base,
                 !.end_lineno = @ + base,
                 !.body = [i \in DOMAIN @ |-> relocate(@[i], base)]]

\* The files: text that does not parse, and the modules of at most two
\* statements.
Files ==
    { [parses |-> FALSE] }
    \cup { [parses |-> TRUE, tree |-> Module(<<>>)] }
    \cup { [parses |-> TRUE, tree |-> Module(<<s>>)] : s \in Statements }
    \cup { [parses |-> TRUE,
            tree |-> Module(<<s, relocate(t, s.end_lineno)>>)] :
             s \in Statements, t \in Statements }

(***************************************************************************)
(* Spec: one analyzer, analyze_file called on one file after another.      *)
(***************************************************************************)
NotCalled == [kind |-> "none"]

Init ==
    /\ cli_style \in CliStyles
    /\ stats = InitStats
    /\ const_stats = InitConstStats
    /\ input = [parses |-> FALSE]
    /\ ctxs = <<>>
    /\ result = NotCalled
    /\ InitTool

\* The analyzer after a call that ended as done says.
Returned(done) ==
    /\ result' = done.result
    /\ stats' = done.stats
    /\ ctxs' = done.ctxs

AnalyzeFile(file) ==
    /\ stats.total_functions < MaxCount
    /\ stats.violations < MaxCount
    /\ input' = file
    /\ Returned(analyze_file(file, stats))
    /\ UNCHANGED <<cli_style, const_stats>>
    /\ UNCHANGED <<analyzer_issues, project, migrator, workers>>

Next == \E file \in Files : AnalyzeFile(file)

Spec == Init /\ [][Next]_vars

(***************************************************************************)
(* SpecFunction: _analyze_node called on one function definition with a    *)
(* given parent_class, for every definition of FunctionInputs.             *)
(***************************************************************************)
InitFunction ==
    /\ cli_style \in CliStyles
    /\ stats = InitStats
    /\ const_stats = InitConstStats
    /\ input \in FunctionInputs
    /\ ctxs = <<>>
    /\ result = NotCalled
    /\ InitTool

node_result(done) ==
    [ result |-> IF done.exc # ""
                 THEN [kind |-> "raised", error |-> done.exc]
                 ELSE [kind |-> "issues", issues |-> done.issues],
      stats  |-> done.stats,
      ctxs   |-> done.ctxs ]

AnalyzeNode ==
    /\ result = NotCalled
    /\ Returned(node_result(_analyze_node(input.node, input.parent_class,
           [issues |-> <<>>, stats |-> stats, ctxs |-> <<>>, exc |-> ""], 1)))
    /\ UNCHANGED <<cli_style, const_stats, input>>
    /\ UNCHANGED <<analyzer_issues, project, migrator, workers>>

NextFunction == AnalyzeNode

SpecFunction == InitFunction /\ [][NextFunction]_vars

(***************************************************************************)
(* SpecAssignment: _analyze_module called on a module of one assignment,   *)
(* for every assignment of AssignmentInputs.                               *)
(***************************************************************************)
Name(id) == [node |-> "Name", text |-> id, left |-> <<>>, right |-> <<>>]
Constant(text) ==
    [node |-> "Constant", text |-> text, left |-> <<>>, right |-> <<>>]
Attribute(value, attr) ==
    [node |-> "Attribute", text |-> attr, left |-> <<value>>, right |-> <<>>]
Call(func, args) ==
    [node |-> "Call", text |-> <<>>, left |-> <<func>>, right |-> args]
List(elts) == [node |-> "List", text |-> <<>>, left |-> elts, right |-> <<>>]
Tuple(elts) == [node |-> "Tuple", text |-> <<>>, left |-> elts, right |-> <<>>]
Dict(keys, values) ==
    [node |-> "Dict", text |-> <<>>, left |-> keys, right |-> values]

Assign(targets, value, lineno) ==
    [ kind |-> "Assign", targets |-> targets, value |-> Some(value),
      lineno |-> lineno, end_lineno |-> lineno, body |-> <<>> ]

AnnAssign(target, value, lineno) ==
    [ kind |-> "AnnAssign", targets |-> <<target>>, value |-> value,
      lineno |-> lineno, end_lineno |-> lineno, body |-> <<>> ]

Targets ==
    { <<"X">>, <<"P","I">>, <<"M","A","X","_","R","E","T","R","I","E","S">>, <<"r","e","t","r","y","L","i","m","i","t">>, <<"M","a","x","R","e","t","r","i","e","s">>,
      <<"a","p","p">>, <<"c","a","c","h","e">>, <<"T">>, <<"T","U","s","e","r">>, <<"l","o","g","g","e","r">>, <<"c","o","n","f","i","g">>,
      <<"D","E","F","A","U","L","T","_","O","P","T","I","O","N","S">>, <<"_","X">>, <<"x","1">>, <<"a","u","d","i","t","_","l","o","g","g","e","r">>, <<"a","p","i","K","e","y","2">>,
      <<"T","_","c","o">> }

Values ==
    { Constant(<<"3">>),
      Constant(<<"'","x","'">>),
      Name(<<"o","t","h","e","r">>),
      Call(Name(<<"F","a","s","t","A","P","I">>), <<>>),
      Call(Attribute(Name(<<"r","e","d","i","s">>), <<"R","e","d","i","s">>), <<>>),
      Call(Name(<<"c","r","e","a","t","e","_","a","p","p">>), <<>>),
      Call(Name(<<"w","r","a","p">>), << Call(Name(<<"F","a","s","t","A","P","I">>), <<>>) >>),
      Call(Name(<<"M","y","R","e","d","i","s">>), <<>>),
      Call(Name(<<"c","o","m","p","u","t","e">>), << Constant(<<"1">>), Name(<<"o","t","h","e","r">>) >>),
      Attribute(Call(Name(<<"F","a","s","t","A","P","I">>), <<>>), <<"s","t","a","t","e">>),
      Call(Name(<<"T","y","p","e","V","a","r">>), << Constant(<<"'","T","'">>) >>),
      Call(Name(<<"w","r","a","p">>), << Call(Name(<<"T","y","p","e","V","a","r">>), << Constant(<<"'","T","'">>) >>) >>),
      Call(Attribute(Name(<<"l","o","g","g","i","n","g">>), <<"g","e","t","L","o","g","g","e","r">>), << Name(<<"_","_","n","a","m","e","_","_">>) >>),
      Call(Name(<<"S","e","t","t","i","n","g","s">>), <<>>),
      List(<< Call(Name(<<"S","e","t","t","i","n","g","s">>), <<>>) >>),
      Call(Attribute(Name(<<"r","e">>), <<"c","o","m","p","i","l","e">>), << Constant(<<"'","a","+","'">>) >>),
      Call(Attribute(Name(<<"o","s">>), <<"g","e","t","e","n","v">>), << Constant(<<"'","H","O","M","E","'">>) >>),
      List(<< Constant(<<"1">>), Constant(<<"2">>) >>),
      List(<< Name(<<"o","t","h","e","r">>) >>),
      Tuple(<< Constant(<<"'","G","E","T","'">>) >>),
      Dict(<< Constant(<<"'","a","'">>) >>, << Constant(<<"1">>) >>),
      Dict(<< Constant(<<"'","a","'">>) >>, << Name(<<"o","t","h","e","r">>) >>) }

\* One module-level assignment, plain or annotated.
AssignmentInputs ==
    { Assign(<<t>>, v, 1) : t \in Targets, v \in Values }
    \cup { AnnAssign(t, Some(v), 1) : t \in Targets, v \in Values }
    \cup { AnnAssign(t, None, 1) : t \in Targets }

InitAssignment ==
    /\ cli_style \in CliStyles
    /\ stats = InitStats
    /\ const_stats = InitConstStats
    /\ input \in AssignmentInputs
    /\ ctxs = <<>>
    /\ result = NotCalled
    /\ InitTool

ModuleAnalyzed(done) ==
    /\ result' = [kind |-> "issues", issues |-> done.issues]
    /\ const_stats' = done.stats
    /\ ctxs' = done.ctxs

AnalyzeModule ==
    /\ result = NotCalled
    /\ ModuleAnalyzed(_analyze_module(<<input>>, 1,
           [issues |-> <<>>, stats |-> const_stats, ctxs |-> <<>>]))
    /\ UNCHANGED <<cli_style, stats, input>>
    /\ UNCHANGED <<analyzer_issues, project, migrator, workers>>

NextAssignment == AnalyzeModule

SpecAssignment == InitAssignment /\ [][NextAssignment]_vars

(***************************************************************************)
(* SpecMigrate: the assignments of one file are analyzed, then the         *)
(* migrator offers its fixes to the user.                                  *)
(***************************************************************************)
Responses == {"y", "n", "s", "q"}

\* The project has one file, a.py, which holds the statement input.
InitMigrate ==
    /\ cli_style \in CliStyles
    /\ stats = InitStats
    /\ const_stats = InitConstStats
    /\ input \in AssignmentInputs
    /\ ctxs = <<>>
    /\ result = NotCalled
    /\ analyzer_issues = NoIssues
    /\ project =
           [ files      |-> << [ path |-> <<"a",".","p","y">>,
                                 file |-> [ parses |-> TRUE,
                                            tree   |-> Module(<<input>>) ] ] >>,
             backup_dir |-> None,
             log        |-> None ]
    /\ migrator = InitMigrator
    /\ workers = <<>>

\* The project and the migrator after migrate_interactive or main, and
\* what the call printed and asked.
Migrated(done, dry_run) ==
    /\ result' = [ kind        |-> "migrated",
                   dry_run     |-> dry_run,
                   suggestions |-> done.suggestions,
                   events      |-> done.events ]
    /\ project' = done.project
    /\ migrator' = done.migrator

MigrateInteractive ==
    /\ result.kind = "issues"
    /\ \E responses \in [DOMAIN result.issues -> Responses], dry_run \in BOOLEAN :
           Migrated(migrate_interactive(
                        [ functions |-> <<>>,
                          constants |-> returned_list(result, <<"a",".","p","y">>),
                          total     |-> Len(result.issues) ],
                        responses, dry_run,
                        [ project |-> project, migrator |-> migrator,
                          suggestions |-> <<>>, events |-> <<>> ]),
                    dry_run)
    /\ UNCHANGED <<cli_style, stats, const_stats, input, ctxs,
                   analyzer_issues, workers>>

NextMigrate == AnalyzeModule \/ MigrateInteractive

SpecMigrate == InitMigrate /\ [][NextMigrate]_vars

(***************************************************************************)
(* SpecSuggest: _suggest_constant_name applied to one name.                *)
(***************************************************************************)
MaxNameLen == 3

NameAlphabet == {"A", "B", "a", "1", "_"}

RECURSIVE names_of_length(_)
names_of_length(n) ==
    IF n = 0 THEN { <<>> }
    ELSE { Append(s, ch) : s \in names_of_length(n - 1), ch \in NameAlphabet }

\* The identifiers of at most MaxNameLen characters.
ConstantNames ==
    { s \in UNION { names_of_length(n) : n \in 1..MaxNameLen } :
        ~ IsDigit(s[1]) }

InitSuggest ==
    /\ cli_style \in CliStyles
    /\ stats = InitStats
    /\ const_stats = InitConstStats
    /\ input \in ConstantNames
    /\ ctxs = <<>>
    /\ result = NotCalled
    /\ InitTool

SuggestConstantName ==
    /\ result = NotCalled
    /\ result' = [kind |-> "suggested",
                  suggestion |-> _suggest_constant_name(input)]
    /\ UNCHANGED <<cli_style, stats, const_stats, input, ctxs>>
    /\ UNCHANGED <<analyzer_issues, project, migrator, workers>>

NextSuggest == SuggestConstantName

SpecSuggest == InitSuggest /\ [][NextSuggest]_vars

(***************************************************************************)
(* SpecRun: one CodeMigrator, analyze called on one project after another. *)
(***************************************************************************)
\* A file with a function and two assignments.
MixedFile ==
    [ parses |-> TRUE,
      tree   |-> Module(<< FunctionDef(<<"d","e","p","l","o","y">>, <<>>, None, None, 1, 2, <<>>),
                           Assign(<< <<"r","e","t","r","y","L","i","m","i","t">> >>, Constant(<<"3">>), 3),
                           Assign(<< <<"M","A","X","_","R","E","T","R","I","E","S">> >>, Constant(<<"3">>), 4) >>) ]

\* The files of a project: text that does not parse, MixedFile and the
\* files of one statement.
RunFiles ==
    { [parses |-> FALSE], MixedFile }
    \cup { [parses |-> TRUE, tree |-> Module(<<s>>)] : s \in
            { FunctionDef(<<"d","e","p","l","o","y">>, <<>>, None, None, 1, 2, <<>>),
              FunctionDef(<<"g","e","t","_","u","s","e","r">>, <<>>, None, Str(<<"R","e","t","u","r","n"," ","t","h","e"," ","u","s","e","r",".">>), 1, 2, <<>>),
              FunctionDef(<<"r","e","n","d","e","r">>, <<>>, None, Ellipsis, 1, 1, <<>>),
              ClassDef(<<"U","s","e","r">>, 1, 2, <<>>),
              Assign(<< <<"r","e","t","r","y","L","i","m","i","t">> >>, Constant(<<"3">>), 1),
              Assign(<< <<"M","A","X","_","R","E","T","R","I","E","S">> >>, Constant(<<"3">>), 1),
              Assign(<< <<"a","p","p">> >>, Call(Name(<<"F","a","s","t","A","P","I">>), <<>>), 1),
              AnnAssign(<<"x","1">>, Some(Constant(<<"3">>)), 1) } }

\* The projects: one or two files, the second one possibly in a directory
\* that analyze skips.
Projects ==
    { << [path |-> <<"a",".","p","y">>, file |-> f] >> : f \in RunFiles }
    \cup { << [path |-> <<"a",".","p","y">>, file |-> f], [path |-> p, file |-> MixedFile] >> :
             f \in { [parses |-> FALSE], MixedFile },
             p \in { <<"b",".","p","y">>, <<"m","i","g","r","a","t","i","o","n","s","/","b",".","p","y">> } }

InitRun ==
    /\ cli_style \in CliStyles
    /\ stats = InitStats
    /\ const_stats = InitConstStats
    /\ input = <<>>
    /\ ctxs = <<>>
    /\ result = NotCalled
    /\ InitTool

Analyzed(done) ==
    /\ result' = done.result
    /\ stats' = done.stats
    /\ const_stats' = done.const_stats
    /\ ctxs' = done.ctxs
    /\ analyzer_issues' = done.self_issues

Analyze(py_files) ==
    /\ stats.total_functions < MaxCount
    /\ stats.violations < MaxCount
    /\ const_stats.total_assignments < MaxCount
    /\ const_stats.violations < MaxCount
    /\ input' = py_files
    /\ Analyzed(analyze(py_files, stats, const_stats, analyzer_issues))
    /\ UNCHANGED <<cli_style, project, migrator, workers>>

NextRun == \E py_files \in Projects : Analyze(py_files)

SpecRun == InitRun /\ [][NextRun]_vars

(***************************************************************************)
(* SpecWorkers: two threads call analyze_file of one function analyzer,    *)
(* each on its own file of one function.  `x += 1` on a counter is a read  *)
(* of the counter followed by a store of the value read plus one; nothing  *)
(* in the code keeps the other thread from running between the two.  Each  *)
(* thread is [todo, loaded]: the counters it has still to increment and    *)
(* the value it has read for the first of them, if it has.                 *)
(***************************************************************************)
InitWorkers ==
    /\ cli_style \in CliStyles
    /\ stats = InitStats
    /\ const_stats = InitConstStats
    /\ \E s1, s2 \in { s \in Statements : s.kind = "FunctionDef" } :
           input = << [parses |-> TRUE, tree |-> Module(<<s1>>)],
                      [parses |-> TRUE, tree |-> Module(<<s2>>)] >>
    /\ ctxs = <<>>
    /\ result = NotCalled
    /\ analyzer_issues = NoIssues
    /\ project = <<>>
    /\ migrator = <<>>
    /\ \E visits1 \in { analyze_file(input[1], InitStats).ctxs },
          visits2 \in { analyze_file(input[2], InitStats).ctxs } :
           workers = << [todo |-> file_updates(visits1, 1), loaded |-> None],
                        [todo |-> file_updates(visits2, 1), loaded |-> None] >>

\* Thread w reads the counter it increments next.
Load(w) ==
    /\ workers[w].todo # <<>>
    /\ workers[w].loaded = None
    /\ workers' = [workers EXCEPT
           ![w].loaded = Some(IF Head(workers[w].todo) \in Categories
                              THEN stats.by_context[Head(workers[w].todo)]
                              ELSE stats[Head(workers[w].todo)])]
    /\ UNCHANGED <<cli_style, stats, const_stats, input, ctxs, result,
                   analyzer_issues, project, migrator>>

\* Thread w stores the value it read plus one.
Store(w) ==
    /\ workers[w].loaded # None
    /\ stats' = IF Head(workers[w].todo) \in Categories
                THEN [stats EXCEPT !.by_context[Head(workers[w].todo)] =
                                       workers[w].loaded[1] + 1]
                ELSE [stats EXCEPT ![Head(workers[w].todo)] =
                                       workers[w].loaded[1] + 1]
    /\ workers' = [workers EXCEPT ![w].todo = Tail(@), ![w].loaded = None]
    /\ UNCHANGED <<cli_style, const_stats, input, ctxs, result,
                   analyzer_issues, project, migrator>>

NextWorkers == \E w \in DOMAIN workers : Load(w) \/ Store(w)

SpecWorkers == InitWorkers /\ [][NextWorkers]_vars

(***************************************************************************)
(* SpecMain: the tool is run on a project again and again, each run a new  *)
(* process with a new CodeMigrator: without --rollback it analyzes and     *)
(* migrates interactively, with --rollback it rolls back.                  *)
(***************************************************************************)
\* The projects: one or two of the files tool_files.
ToolProjects ==
    LET tool_files ==
            { MixedFile,
              [parses |-> FALSE],
              [ parses |-> TRUE,
                tree   |-> Module(<< Assign(<< <<"x","1">> >>, Constant(<<"3">>), 1),
                                     Assign(<< <<"T","O","T","A","L">> >>,
                                            List(<< Name(<<"x","1">>) >>), 2) >>) ],
              [ parses |-> TRUE,
                tree   |-> Module(<< FunctionDef(<<"g","e","t","_","u","s","e","r">>, <<>>, None,
                                         Str(<<"R","e","t","u","r","n"," ","t","h","e"," ","u","s","e","r",".">>), 1, 2, <<>>) >>) ] }
    IN  { << [path |-> <<"a",".","p","y">>, file |-> f] >> : f \in tool_files }
        \cup { << [path |-> <<"a",".","p","y">>, file |-> f],
                  [path |-> <<"b",".","p","y">>, file |-> g] >> :
                 f \in tool_files, g \in tool_files \ {MixedFile} }

InitMain ==
    /\ cli_style \in CliStyles
    /\ stats = InitStats
    /\ const_stats = InitConstStats
    /\ input = <<>>
    /\ ctxs = <<>>
    /\ result = NotCalled
    /\ analyzer_issues = NoIssues
    /\ \E files \in ToolProjects :
           project = [files |-> files, backup_dir |-> None, log |-> None]
    /\ migrator = InitMigrator
    /\ workers = <<>>

\* The number of issues for which migrate_interactive can ask.
questions(issues) ==
    Len(SelectSeq(issues.functions, LAMBDA issue :
            offered([type |-> "function", issue |-> issue])))
    + Len(SelectSeq(issues.constants, LAMBDA issue :
            offered([type |-> "constant", issue |-> issue])))

\* main without --rollback and without --auto: a is what analyze answers
\* to the new CodeMigrator.  input keeps the project as it was before.
MainMigrate ==
    /\ \E a \in { analyze(project.files, InitStats, InitConstStats, NoIssues) } :
           /\ stats' = a.stats
           /\ const_stats' = a.const_stats
           /\ ctxs' = a.ctxs
           /\ analyzer_issues' = a.self_issues
           /\ \E responses \in [1..questions(a.result) -> Responses],
                 dry_run \in BOOLEAN :
                  \E w \in { migrate_interactive(a.result, responses, dry_run,
                                 [ project |-> project,
                                   migrator |-> InitMigrator,
                                   suggestions |-> <<>>,
                                   events |-> <<>> ]) } :
                      \* "# Save log": save_migration_log when files were
                      \* fixed.
                      IF ~ dry_run /\ w.migrator.fixed_files # {}
                      THEN Migrated([w EXCEPT !.project.log = Some(
                               [ files_fixed   |-> Cardinality(w.migrator.fixed_files),
                                 files_skipped |-> Cardinality(w.migrator.skipped_files),
                                 changes       |-> w.migrator.migration_log ])],
                               dry_run)
                      ELSE Migrated(w, dry_run)
    /\ input' = project
    /\ UNCHANGED <<cli_style, workers>>

\* main with --rollback: rollback of a new CodeMigrator.
MainRollback ==
    /\ project' = rollback(project, InitMigrator.fixed_files)
    /\ migrator' = InitMigrator
    /\ result' = [kind |-> "rolled_back", found |-> project.backup_dir # None]
    /\ input' = project
    /\ stats' = InitStats
    /\ const_stats' = InitConstStats
    /\ ctxs' = <<>>
    /\ analyzer_issues' = NoIssues
    /\ UNCHANGED <<cli_style, workers>>

NextMain == MainMigrate \/ MainRollback

SpecMain == InitMain /\ [][NextMain]_vars

(***************************************************************************)
(* Claims                                                                  *)
(***************************************************************************)
Called == result.kind # "none"

\* The rules of the classifier in the order the specification lists them.
RuleOrder ==
    << "test_function", "cli_command", "api_endpoint", "pytest_fixture",
       "property", "response_factory", "event_handler", "validator",
       "boolean_check", "getter", "special_method", "test_method",
       "regular_function" >>

HasMarker(ctx, marker) ==
    \E i \in DOMAIN ctx.decorators : contains(ctx.decorators[i], marker)

RuleMatches(ctx, category) ==
    CASE category = "test_function" -> startswith(ctx.name, <<"t","e","s","t","_">>)
      [] category = "cli_command" ->
            \E m \in { <<"@","c","l","i",".","c","o","m","m","a","n","d">>, <<"@","a","p","p",".","c","o","m","m","a","n","d">>, <<"@","c","l","i","c","k",".","c","o","m","m","a","n","d">> } :
                HasMarker(ctx, m)
      [] category = "api_endpoint" ->
            \E m \in { <<"@","a","p","p",".">>, <<"@","r","o","u","t","e","r",".">> } : HasMarker(ctx, m)
      [] category = "pytest_fixture" -> HasMarker(ctx, <<"@","p","y","t","e","s","t",".","f","i","x","t","u","r","e">>)
      [] category = "property" -> HasMarker(ctx, <<"@","p","r","o","p","e","r","t","y">>)
      [] category = "response_factory" ->
            /\ endswith(ctx.name, <<"_","r","e","s","p","o","n","s","e">>)
            /\ ctx.returns_type # None
            /\ contains(ctx.returns_type[1], <<"R","e","s","p","o","n","s","e">>)
      [] category = "event_handler" ->
            \E p \in { <<"o","n","_">>, <<"h","a","n","d","l","e","_">> } : startswith(ctx.name, p)
      [] category = "validator" ->
            \E m \in { <<"@","v","a","l","i","d","a","t","o","r">>, <<"@","f","i","e","l","d","_","v","a","l","i","d","a","t","o","r">> } : HasMarker(ctx, m)
      [] category = "boolean_check" ->
            \E p \in { <<"i","s","_">>, <<"h","a","s","_">> } : startswith(ctx.name, p)
      [] category = "getter" -> startswith(ctx.name, <<"g","e","t","_">>)
      [] category = "special_method" ->
            startswith(ctx.name, <<"_","_">>) /\ endswith(ctx.name, <<"_","_">>)
      [] category = "test_method" ->
            ctx.parent_class # None /\ contains(ctx.parent_class[1], <<"T","e","s","t">>)
      [] category = "regular_function" -> TRUE

FirstMatch(ctx) ==
    RuleOrder[CHOOSE i \in DOMAIN RuleOrder :
                 /\ RuleMatches(ctx, RuleOrder[i])
                 /\ \A j \in 1..(i - 1) : ~ RuleMatches(ctx, RuleOrder[j])]

\* C1: the category context_type gives a function is that of the first rule,
\* in the order of RuleOrder, that its name, decorator strings, return
\* annotation and enclosing class match; test_get_user is test_function
\* whatever its decorators.
C1_FirstMatchWins ==
    \A i \in DOMAIN ctxs :
        /\ ctxs[i].context_type = FirstMatch(ctxs[i].ctx)
        /\ ctxs[i].ctx.name = <<"t","e","s","t","_","g","e","t","_","u","s","e","r">>
               => ctxs[i].context_type = "test_function"

C1_Witness ==
    /\ Called
    /\ Len(ctxs) = 1
    /\ ctxs[1].ctx.name = <<"t","e","s","t","_","g","e","t","_","u","s","e","r">>
    /\ HasMarker(ctxs[1].ctx, <<"@","p","y","t","e","s","t",".","f","i","x","t","u","r","e">>)
    /\ ctxs[1].context_type = "test_function"

\* The function definitions of a tree with the class each is a method of.
RECURSIVE functions_of(_, _)
RECURSIVE functions_in(_, _, _)
functions_in(body, i, enclosing) ==
    IF i > Len(body) THEN <<>>
    ELSE functions_of(body[i], enclosing) \o functions_in(body, i + 1, enclosing)

functions_of(node, enclosing) ==
    IF node.kind = "FunctionDef"
    THEN << [name |-> node.name, lineno |-> node.lineno,
             parent_class |-> enclosing] >>
         \o functions_in(node.body, 1, enclosing)
    ELSE IF node.kind = "ClassDef"
    THEN functions_in(node.body, 1, Some(node.name))
    ELSE functions_in(node.body, 1, enclosing)

Visit(c) ==
    [name |-> c.ctx.name, lineno |-> c.ctx.lineno,
     parent_class |-> c.ctx.parent_class]

SameVisits(expected, built) ==
    /\ Len(expected) = Len(built)
    /\ \A i \in DOMAIN expected :
           Cardinality({j \in DOMAIN built : Visit(built[j]) = expected[i]}) = 1

\* C3: analyze_file on a file that parses returns the list of issues, not an
\* error record, and has visited every function and method of the file
\* exactly once, methods with parent_class set to their class.
C3_WalkVisitsOnceAndReturns ==
    (Called /\ input.parses) =>
        /\ result.kind = "issues"
        /\ SameVisits(functions_of(input.tree, None), ctxs)

\* The name is a recognized verb or starts with one followed by "_".
IsVerbOrVerbPrefixed(name) ==
    \E i \in DOMAIN verbs :
        \/ lower(name) = verbs[i]
        \/ startswith(lower(name), verbs[i] \o <<"_">>)

ReturnedIssue ==
    /\ result.kind = "issues"
    /\ Len(result.issues) = 1
    /\ result.issues[1].issue = "Missing verb prefix"

ReturnedNone == result.kind = "issues" /\ result.issues = <<>>

\* C4: a function of a category exempt from the verb prefix check gets no
\* issue; a regular_function, api_endpoint or event_handler gets the issue
\* exactly when its name is neither a verb nor a verb followed by "_".
C4_VerbPrefixChecked ==
    \A i \in DOMAIN ctxs :
        /\ ctxs[i].context_type \in
               { "test_function", "pytest_fixture", "property",
                 "special_method", "boolean_check", "getter" }
               => ReturnedNone
        /\ ctxs[i].context_type \in
               { "regular_function", "api_endpoint", "event_handler" }
               => /\ ReturnedIssue \/ ReturnedNone
                  /\ ReturnedIssue <=> ~ IsVerbOrVerbPrefixed(ctxs[i].ctx.name)

\* C6: every category context_type returns has a rule in CONTEXT_RULES, so
\* the lookup of _check_function never fails.
C6_RuleForEveryCategory ==
    /\ \A i \in DOMAIN ctxs : ctxs[i].context_type \in DOMAIN CONTEXT_RULES
    /\ ~ (result.kind = "raised" /\ result.error = "KeyError")

\* C7: whatever the first statement of the body is, checking a function
\* returns None or an issue and raises nothing from the suggestion.
C7_SuggestionNeverRaises ==
    \A i \in DOMAIN ctxs :
        ~ _has_verb_prefix(ctxs[i].ctx.name)
            => ~ (result.kind = "raised" /\ result.error = "AttributeError")

\* The file of scenario D: @cli.command() above def start().
StartCommandFile ==
    [ parses |-> TRUE,
      tree   |-> Module(<< FunctionDef(<<"s","t","a","r","t">>, << <<"@","c","l","i",".","c","o","m","m","a","n","d","(",")">> >>,
                                       None, None, 2, 3, <<>>) >>) ]

\* C8: with the rails style, analyze_file on the file of scenario D returns
\* no issue and counts the function start as a cli_command.
C8_StartCommandIsCliCommand ==
    (Called /\ input = StartCommandFile /\ cli_style = "rails") =>
        /\ result = [kind |-> "issues", issues |-> <<>>]
        /\ Len(ctxs) = 1
        /\ ctxs[1].context_type = "cli_command"
        /\ stats.by_context["cli_command"] >= 1

\* A function named start, without docstring, classified cli_command and
\* checked under the verb_noun style.
StartAsCliCommand(c) ==
    /\ c.ctx.name = <<"s","t","a","r","t">>
    /\ c.ctx.docstring = None
    /\ c.context_type = "cli_command"
    /\ cli_style = "verb_noun"

\* C9 as stated: such a function gets the issue, with suggestion
\* process_start.
C9_StartGetsProcessStart ==
    \A i \in DOMAIN ctxs :
        StartAsCliCommand(ctxs[i]) =>
            /\ ReturnedIssue
            /\ result.issues[1].suggestion = Some(<<"p","r","o","c","e","s","s","_","s","t","a","r","t">>)

\* C9 amended: start is itself a verb, so such a function gets no issue; a
\* cli_command without verb prefix and without docstring, such as deploy,
\* gets the issue under verb_noun, and the issue carries no suggestion.
C9_StartIsAVerb ==
    \A i \in DOMAIN ctxs :
        /\ StartAsCliCommand(ctxs[i]) => ReturnedNone
        /\ ( /\ ctxs[i].ctx.name = <<"d","e","p","l","o","y">>
             /\ ctxs[i].ctx.docstring = None
             /\ ctxs[i].context_type = "cli_command"
             /\ cli_style = "verb_noun" )
               => /\ ReturnedIssue
                  /\ result.issues[1].suggestion = None
                  /\ result.issues[1].can_auto_fix = FALSE

C9_Witness ==
    /\ Called
    /\ Len(ctxs) = 1
    /\ StartAsCliCommand(ctxs[1])
    /\ ReturnedNone

\* C10: a cli_command, response_factory or validator gets an issue only
\* under the verb_noun style and only when its name has no verb prefix;
\* under the rails style none of them gets an issue.
C10_OptionalResolvedByStyle ==
    \A i \in DOMAIN ctxs :
        ctxs[i].context_type \in {"cli_command", "response_factory", "validator"}
            => /\ cli_style = "rails" => ~ ReturnedIssue
               /\ ReturnedIssue => /\ cli_style = "verb_noun"
                                   /\ ~ IsVerbOrVerbPrefixed(ctxs[i].ctx.name)

\* The name of the callee of a call: the called name, or the attribute
\* called on an object.
CalleeName(func) ==
    CASE func.node = "Name" -> Some(func.text)
      [] func.node = "Attribute" -> Some(func.text)
      [] OTHER -> None

CalleeIsFactory(c) ==
    /\ c.value_node.node = "Call"
    /\ CalleeName(c.value_node.left[1]) # None
    /\ CalleeName(c.value_node.left[1])[1] \in singleton_patterns

AssignmentRuleOrder ==
    << "typevar", "singleton", "logger", "config", "regex", "env_var",
       "constant", "collection_constant", "unknown" >>

AssignmentRuleMatches(c, type) ==
    CASE type = "typevar" -> _is_typevar(c)
      [] type = "singleton" -> CalleeIsFactory(c)
      [] type = "logger" -> _is_logger(c)
      [] type = "config" ->
            \/ /\ c.value_node.node \in {"Dict", "List"}
               /\ \E n \in config_names : contains(lower(c.target), n)
            \/ contains(c.value_str, <<"C","o","n","f","i","g","(">>)
            \/ contains(c.value_str, <<"S","e","t","t","i","n","g","s","(">>)
      [] type = "regex" -> _is_compiled_regex(c)
      [] type = "env_var" -> _is_env_var(c)
      [] type = "constant" -> c.value_node.node = "Constant"
      [] type = "collection_constant" -> _is_collection_constant(c)
      [] type = "unknown" -> TRUE

FirstAssignmentMatch(c) ==
    AssignmentRuleOrder[CHOOSE i \in DOMAIN AssignmentRuleOrder :
        /\ AssignmentRuleMatches(c, AssignmentRuleOrder[i])
        /\ \A j \in 1..(i - 1) :
               ~ AssignmentRuleMatches(c, AssignmentRuleOrder[j])]

\* C2: the type _determine_type gives an assignment is that of the first
\* rule, in the order of AssignmentRuleOrder, that matches; the singleton
\* rule matches a call whose callee is one of the factories and no other
\* call.
C2_FirstAssignmentMatchWins ==
    \A i \in DOMAIN ctxs :
        /\ ctxs[i].assignment_type = FirstAssignmentMatch(ctxs[i])
        /\ ctxs[i].assignment_type = "singleton" => CalleeIsFactory(ctxs[i])

\* C5: an assignment of an Uppercase-style type gets the issue "should be
\* UPPER_CASE" exactly when its name is not all uppercase; X and MAX_RETRIES
\* get none.
C5_UppercaseIffNotUpper ==
    \A i \in DOMAIN ctxs :
        ctxs[i].assignment_type \in {"regex", "constant", "collection_constant"}
            => /\ (/\ Len(result.issues) = 1
                   /\ result.issues[1].issue = "should be UPPER_CASE")
                      <=> ~ isupper(ctxs[i].target)
               /\ ~ isupper(ctxs[i].target) \/ result.issues = <<>>

\* C11: a function classified event_handler, its name starting with on_ or
\* handle_, is never reported as missing a verb prefix.
C11_EventHandlerNeverReported ==
    \A i \in DOMAIN ctxs :
        ctxs[i].context_type = "event_handler" => ~ ReturnedIssue

\* The module analyzed returned exactly one issue, with this message.
ReturnedAssignmentIssue(message) ==
    /\ result.kind = "issues"
    /\ Len(result.issues) = 1
    /\ result.issues[1].issue = message


\* The name is all lowercase or snake_case: lowercase letters, digits and
\* underscores, with a letter among them.
IsLowercaseOrSnakeCase(name) ==
    /\ \A i \in DOMAIN name :
           IsLowerChar(name[i]) \/ IsDigit(name[i]) \/ name[i] = "_"
    /\ \E i \in DOMAIN name : IsLowerChar(name[i])

\* C12: an assignment of a Lowercase-style type (singleton, logger) gets
\* the issue "should be lowercase" exactly when its name is neither all
\* lowercase nor snake_case, and no other issue; app = FastAPI() is a
\* singleton without issue.
C12_LowercaseIffNotLower ==
    /\ \A i \in DOMAIN ctxs :
        ctxs[i].assignment_type \in {"singleton", "logger"}
            => /\ ReturnedAssignmentIssue("should be lowercase")
                      <=> ~ IsLowercaseOrSnakeCase(ctxs[i].target)
               /\ IsLowercaseOrSnakeCase(ctxs[i].target)
                      => result.issues = <<>>
    /\ (Called /\ input = Assign(<< <<"a","p","p">> >>, Call(Name(<<"F","a","s","t","A","P","I">>), <<>>), 1))
            => /\ result.issues = <<>>
               /\ Len(ctxs) = 1
               /\ ctxs[1].assignment_type = "singleton"

C12_Witness ==
    /\ Called
    /\ input = Assign(<< <<"a","p","p">> >>, Call(Name(<<"F","a","s","t","A","P","I">>), <<>>), 1)
    /\ Len(ctxs) = 1
    /\ ctxs[1].assignment_type = "singleton"
    /\ result.issues = <<>>
    /\ const_stats.by_type["singleton"] = 1

IsSingleUppercaseLetter(name) == Len(name) = 1 /\ IsUpperChar(name[1])

\* PascalCase: the first letter is uppercase, there is no underscore and
\* the name is not fully uppercase.
IsPascalCase(name) ==
    /\ Len(name) >= 1
    /\ IsUpperChar(name[1])
    /\ \A i \in DOMAIN name : name[i] # "_"
    /\ \E i \in DOMAIN name : IsLowerChar(name[i])

TypeVarAssignment ==
    Assign(<< <<"T">> >>, Call(Name(<<"T","y","p","e","V","a","r">>), << Constant(<<"'","T","'">>) >>), 1)

\* C13: an assignment of type typevar gets the issue "should be single
\* letter or PascalCase" exactly when its name is neither one uppercase
\* letter nor PascalCase, and no other issue; T = TypeVar('T') is a typevar
\* without issue.
C13_TypeVarIffNotSingleOrPascal ==
    /\ \A i \in DOMAIN ctxs :
        ctxs[i].assignment_type = "typevar"
            => /\ ReturnedAssignmentIssue("should be single letter or PascalCase")
                      <=> ~ (\/ IsSingleUppercaseLetter(ctxs[i].target)
                             \/ IsPascalCase(ctxs[i].target))
               /\ (\/ IsSingleUppercaseLetter(ctxs[i].target)
                   \/ IsPascalCase(ctxs[i].target))
                      => result.issues = <<>>
    /\ (Called /\ input = TypeVarAssignment)
            => /\ result.issues = <<>>
               /\ Len(ctxs) = 1
               /\ ctxs[1].assignment_type = "typevar"

C13_Witness ==
    /\ Called
    /\ input = TypeVarAssignment
    /\ Len(ctxs) = 1
    /\ ctxs[1].assignment_type = "typevar"
    /\ result.issues = <<>>

\* C14: every issue returned for an assignment of type typevar, singleton
\* or logger has auto_fixable = FALSE.
C14_NeverAutoFixable ==
    result.kind = "issues" =>
        \A i \in DOMAIN result.issues :
            result.issues[i].type \in {"typevar", "singleton", "logger"}
                => result.issues[i].auto_fixable = FALSE

C14_Witness ==
    /\ Called
    /\ input = Assign(<< <<"M","a","x","R","e","t","r","i","e","s">> >>, Call(Name(<<"F","a","s","t","A","P","I">>), <<>>), 1)
    /\ Len(result.issues) = 1
    /\ result.issues[1].type = "singleton"
    /\ result.issues[1].issue = "should be lowercase"
    /\ result.issues[1].auto_fixable = FALSE

\* What _analyze_node does, from fresh statistics, with a function that has
\* the decorators, return annotation and enclosing class of the input but
\* another name and first statement.
Peer(name, first_const) ==
    _analyze_node(
        FunctionDef(name, input.node.decorator_lines, input.node.returns,
                    first_const, input.node.lineno, input.node.end_lineno, <<>>),
        input.parent_class,
        [issues |-> <<>>, stats |-> InitStats, ctxs |-> <<>>, exc |-> ""], 1)

SameFlagWhenSameCategory(peer, issue) ==
    ( /\ peer.exc = ""
      /\ Len(peer.issues) = 1
      /\ peer.issues[1].context = issue.context )
        => peer.issues[1].can_auto_fix = issue.can_auto_fix

\* C15: the can_auto_fix flag of an issue depends on the category only: a
\* function of the same category that differs in name or docstring and is
\* reported too carries the same flag.
C15_AutoFixDependsOnCategoryOnly ==
    ReturnedIssue =>
        \A n \in Names, d \in FirstConsts :
            SameFlagWhenSameCategory(Peer(n, d), result.issues[1])

\* The text of the docstring of a function, when its first statement is a
\* string.
DocstringText(ctx) ==
    IF ctx.docstring # None /\ ctx.docstring[1].type = "str"
    THEN Some(ctx.docstring[1].text)
    ELSE None

DefaultSuggestion(category, name) ==
    IF category = "regular_function" THEN Some(<<"p","r","o","c","e","s","s","_">> \o name)
    ELSE IF category = "api_endpoint" THEN Some(<<"h","a","n","d","l","e","_">> \o name)
    ELSE None

\* The suggestion stated for a function of this category and name whose
\* docstring has this text.
KeywordSuggestion(category, name, text) ==
    IF contains(lower(text), <<"r","e","t","u","r","n">>) \/ contains(lower(text), <<"g","e","t">>)
    THEN Some(<<"g","e","t","_">> \o name)
    ELSE IF contains(lower(text), <<"c","r","e","a","t","e">>)
    THEN Some(<<"c","r","e","a","t","e","_">> \o name)
    ELSE IF contains(lower(text), <<"c","h","e","c","k">>) \/ contains(lower(text), <<"v","a","l","i","d","a","t","e">>)
    THEN Some(<<"v","a","l","i","d","a","t","e","_">> \o name)
    ELSE DefaultSuggestion(category, name)

ExpectedSuggestion(category, name, doc) ==
    IF category \in {"special_method", "property"} THEN None
    ELSE IF doc # None THEN KeywordSuggestion(category, name, doc[1])
    ELSE DefaultSuggestion(category, name)

SuggestionIs(suggested, expected) ==
    suggested.exc = "" /\ suggested.value = expected

\* C16: _suggest_name returns None for special_method and property, else
\* the name the first keyword of the docstring gives (return or get, then
\* create, then check or validate), else process_<name> for a
\* regular_function, handle_<name> for an api_endpoint and None for the
\* other categories; an issue returned carries that suggestion.
C16_SuggestionByKeywordThenCategory ==
    \A i \in DOMAIN ctxs :
        /\ SuggestionIs(_suggest_name(ctxs[i].ctx),
                        ExpectedSuggestion(ctxs[i].context_type,
                                           ctxs[i].ctx.name,
                                           DocstringText(ctxs[i].ctx)))
        /\ ReturnedIssue =>
               result.issues[1].suggestion =
                   ExpectedSuggestion(ctxs[i].context_type, ctxs[i].ctx.name,
                                      DocstringText(ctxs[i].ctx))

\* The text up to the first line break.
RECURSIVE first_line(_)
first_line(text) ==
    IF text = <<>> \/ Head(text) = "\n" THEN <<>>
    ELSE <<Head(text)>> \o first_line(Tail(text))

\* What _analyze_node does, from fresh statistics, with the function of
\* the input given another first statement.
WithFirstStatement(first_const) ==
    node_result(_analyze_node(
        [input.node EXCEPT !.first_const = first_const],
        input.parent_class,
        [issues |-> <<>>, stats |-> InitStats, ctxs |-> <<>>, exc |-> ""], 1))

SameSuggestion(other, issue) ==
    /\ other.result.kind = "issues"
    /\ Len(other.result.issues) = 1
    /\ other.result.issues[1].suggestion = issue.suggestion

\* C17: the suggestion depends on the first line of the docstring only: the
\* same function with a docstring that has the same first line and differs
\* after it gets the same suggestion.
C17_SuggestionReadsFirstLineOnly ==
    (ReturnedIssue /\ DocstringText(ctxs[1].ctx) # None) =>
        \A d \in FirstConsts :
            ( /\ d # None
              /\ d[1].type = "str"
              /\ first_line(d[1].text) = first_line(DocstringText(ctxs[1].ctx)[1]) )
                => SameSuggestion(WithFirstStatement(d), result.issues[1])

\* The name is UPPER_CASE with underscores: uppercase letters, digits and
\* underscores only, with a letter among them.
IsUpperCaseName(name) ==
    /\ \A i \in DOMAIN name :
           IsUpperChar(name[i]) \/ IsDigit(name[i]) \/ name[i] = "_"
    /\ \E i \in DOMAIN name : IsUpperChar(name[i])

\* C18: _suggest_constant_name returns a name that is already UPPER_CASE
\* with underscores unchanged.
C18_UpperCaseNameUnchanged ==
    (result.kind = "suggested" /\ IsUpperCaseName(input))
        => result.suggestion = input

RetryLimitAssignment == Assign(<< <<"r","e","t","r","y","L","i","m","i","t">> >>, Constant(<<"3">>), 1)

\* The migrator has offered a fix for the one issue of the file.
Offered ==
    /\ result.kind = "migrated"
    /\ Len(result.suggestions) = 1

\* The names of the claim with the suggestions it states for them.
StatedSuggestion(name) ==
    CASE name = <<"r","e","t","r","y","L","i","m","i","t">> -> Some(<<"R","E","T","R","Y","_","L","I","M","I","T">>)
      [] name = <<"M","a","x","R","e","t","r","i","e","s">> -> Some(<<"M","A","X","_","R","E","T","R","I","E","S">>)
      [] name = <<"a","p","i","K","e","y","2">> -> Some(<<"A","P","I","_","K","E","Y","2">>)
      [] OTHER -> None

\* An underscore put before every uppercase letter that follows a lowercase
\* letter or a digit, the whole in uppercase.
RECURSIVE separated(_, _)
separated(name, i) ==
    IF i > Len(name) THEN <<>>
    ELSE (IF /\ i > 1
             /\ IsUpperChar(name[i])
             /\ IsLowerChar(name[i - 1]) \/ IsDigit(name[i - 1])
          THEN <<"_", name[i]>>
          ELSE <<name[i]>>) \o separated(name, i + 1)

\* camelCase or PascalCase: letters and digits, each uppercase letter
\* followed by a lowercase one.
IsCamelOrPascalCase(name) ==
    /\ \A i \in DOMAIN name :
           IsUpperChar(name[i]) \/ IsLowerChar(name[i]) \/ IsDigit(name[i])
    /\ \A i \in DOMAIN name :
           IsUpperChar(name[i]) => (i < Len(name) /\ IsLowerChar(name[i + 1]))
    /\ \E i \in DOMAIN name : IsUpperChar(name[i])

C20_FailedFileCountsNothing ==
    [][ result'.kind = "error" => stats' = stats ]_vars

\* C21: the issues analyze_file returns for a file are in ascending order
\* of source line.
C21_IssuesInLineOrder ==
    result.kind = "issues" =>
        \A i, j \in DOMAIN result.issues :
            i < j => result.issues[i].line <= result.issues[j].line

\* What the last run of analyze returns and counts when the analyzers are
\* new.
RunAlone == analyze(input, InitStats, InitConstStats, NoIssues)

\* C22: the counters read after a run of analyze count the constructs of
\* that run only: they are what a new analyzer counts on the same files.
C22_CountersCountOneRun ==
    result.kind = "analysis" =>
        /\ stats = RunAlone.stats
        /\ const_stats = RunAlone.const_stats

\* C24: categories, issues and suggestions of a run depend on the files
\* alone, not on the counters nor on what was analyzed before.
C24_EvaluationIgnoresCounters ==
    result.kind = "analysis" =>
        /\ result = RunAlone.result
        /\ ctxs = RunAlone.ctxs

\* A run on an analyzer that has counted before, with a construct that has
\* an issue and one that has none.
C24_Witness ==
    /\ result.kind = "analysis"
    /\ stats # RunAlone.stats
    /\ const_stats # RunAlone.const_stats
    /\ result.functions # <<>>
    /\ result.constants # <<>>
    /\ Len(ctxs) > result.total

\* C28: in each analyzer the violation counter is at most the counter of
\* constructs.
C28_ViolationsWithinTotal ==
    /\ stats.violations <= stats.total_functions
    /\ const_stats.violations <= const_stats.total_assignments

\* C30: after the calls of analyze_file the issues attribute of each
\* analyzer is empty: get_report has no "Top issues" section and
\* generate_exceptions returns empty lists.
C30_IssuesAttributeStaysEmpty ==
    result.kind = "analysis" =>
        /\ analyzer_issues = NoIssues
        /\ ~ get_report_top_issues(analyzer_issues.functions)
        /\ ~ get_report_top_issues(analyzer_issues.constants)
        /\ generate_exceptions(analyzer_issues.constants)
               = [singletons |-> <<>>, loggers |-> <<>>, typevars |-> <<>>]

\* Both analyzers have returned issues to the caller.
C30_Witness ==
    /\ result.kind = "analysis"
    /\ \E i \in DOMAIN result.functions : "function" \in DOMAIN result.functions[i]
    /\ \E i \in DOMAIN result.constants : "name" \in DOMAIN result.constants[i]

\* Both threads have returned from analyze_file.
WorkersDone == workers # <<>> /\ \A w \in DOMAIN workers : workers[w].todo = <<>>

\* C23: when both threads have finished, every counter is the sum over the
\* two files: what one thread counts that analyzes one file after the other.
C23_NoUpdateLost ==
    WorkersDone =>
        stats = analyze_file(input[2],
                    analyze_file(input[1], InitStats).stats).stats

\* C29: the name suggested for a constant whose name fails the uppercase
\* check differs from that name and passes the check.
C29_RenameSettlesViolation ==
    (result.kind = "suggested" /\ ~ _is_uppercase(input)) =>
        /\ result.suggestion # input
        /\ _is_uppercase(result.suggestion)

\* C25: the run with --rollback that follows a run which wrote modified
\* files leaves every one of these files with the content it had before
\* that run (and only then is the backup directory gone).
C25_RollbackRestores ==
    [][ ( /\ result.kind = "migrated"
          /\ migrator.fixed_files # {}
          /\ result'.kind = "rolled_back" )
        => \A path \in migrator.fixed_files :
               file_at(project'.files, path) = file_at(input.files, path)
      ]_vars

\* The user answered q to the i-th event of the last run.
AnsweredQuit(i) ==
    /\ result.events[i].event = "prompt"
    /\ result.events[i].answer = "q"

\* C26: after the answer q, migrate_interactive asks no further question
\* and writes no file.
C26_QuitEndsMigration ==
    result.kind = "migrated" =>
        \A i, j \in DOMAIN result.events :
            (i < j /\ AnsweredQuit(i)) =>
                result.events[j].event \notin {"prompt", "backup", "write"}

\* C27: a dry run leaves the files, the backup directory and the log as
\* they were, fixed_files and migration_log empty, whatever is answered.
C27_DryRunChangesNothing ==
    (result.kind = "migrated" /\ result.dry_run) =>
        /\ project = input
        /\ migrator.fixed_files = {}
        /\ migrator.migration_log = <<>>
        /\ \A i \in DOMAIN result.events :
               result.events[i].event \notin {"backup", "write"}

\* A dry run in which the user accepted a fix, on a project that has no
\* backup directory.
C27_Witness ==
    /\ result.kind = "migrated"
    /\ result.dry_run
    /\ \E i \in DOMAIN result.events :
           result.events[i].event = "prompt" /\ result.events[i].answer = "y"
    /\ project.backup_dir = None
    /\ project = input
====
